---- MODULE Spec2Model ----
(***************************************************************************)
(* kwagoo-api: the layer-composition graph builders (composeDynamic,       *)
(* composeImage, composeVideo, createVideo), their text wrapping           *)
(* (wrapLines), the containers and uploads createVideo reads from, and the *)
(* life cycle of a request against the shared temp and output directories. *)
(*                                                                         *)
(* JavaScript strings that the code inspects character by character (the   *)
(* text handed to wrapLines, the ratio, the values it escapes) are         *)
(* sequences of one-character strings; the strings the code only builds    *)
(* (labels, file names) are TLA+ strings built by concatenation, as the    *)
(* template literals build them.                                           *)
(***************************************************************************)
EXTENDS Integers, Sequences, FiniteSets, TLC

VARIABLES
  now,      \* the value Date.now() returns
  fs,       \* the files on disk: path -> content
  req,      \* per composeDynamic request: its locals and its position
  pending,  \* fs.unlink calls handed to the thread pool, not yet run
  wrap,     \* one wrapLines call: arguments, position, result
  cv,       \* one createVideo call: arguments, position, result
  ci,       \* one composeImage call: its locals and its position
  vc,       \* one composeVideo call: its locals and its position
  up,       \* the container calls: the id created and the last call's result
  cv2       \* a second createVideo call, in flight with the first

vars == <<now, fs, req, pending, wrap, cv, ci, vc, up, cv2>>

(***************************************************************************)
(* Bounds of the model.                                                    *)
(***************************************************************************)
MaxLen == 5        \* longest string handed to wrapLines
MaxChars == 3      \* largest maxChars handed to wrapLines
MaxElements == 2   \* longest elements array
MaxTime == 2       \* last clock value
MaxUploads == 2    \* most upload calls in one run
MaxContainers == 2 \* most createContainer calls in one run
MaxStyleLen == 2   \* longest text Value and FontStyle with metacharacters
MaxRatioLen == 4   \* longest text of a ratio value

(***************************************************************************)
(* Characters and strings.                                                 *)
(***************************************************************************)
SP == " "
NL == "\n"
Chars == {"a", SP, NL}

\* the strings over Chars of length at most n
StringsUpTo(n) == UNION {[1..k -> Chars] : k \in 0..n}

\* what String.prototype.trim strips
IsWhite(c) == c \in {SP, NL}

RECURSIVE trimStart(_)
trimStart(s) ==
  IF s = <<>> THEN <<>>
  ELSE IF IsWhite(Head(s)) THEN trimStart(Tail(s))
  ELSE s

RECURSIVE trimEnd(_)
trimEnd(s) ==
  IF s = <<>> THEN <<>>
  ELSE IF IsWhite(s[Len(s)]) THEN trimEnd(SubSeq(s, 1, Len(s) - 1))
  ELSE s

trim(s) == trimEnd(trimStart(s))

\* str.split(" "): the pieces between single spaces, empty pieces kept
split(str) ==
  LET RECURSIVE go(_, _, _)
      go(i, piece, acc) ==
        IF i > Len(str) THEN Append(acc, piece)
        ELSE IF str[i] = SP THEN go(i + 1, <<>>, Append(acc, piece))
        ELSE go(i + 1, Append(piece, str[i]), acc)
  IN go(1, <<>>, <<>>)

\* lines.join("\n")
RECURSIVE joinNL(_)
joinNL(lines) ==
  IF lines = <<>> THEN <<>>
  ELSE IF Len(lines) = 1 THEN lines[1]
  ELSE lines[1] \o <<NL>> \o joinNL(Tail(lines))

(***************************************************************************)
(* wrapLines                                                               *)
(***************************************************************************)
\* a comparison that lets a line run one character over the limit
TooLongStrict(test, maxChars) == Len(test) > maxChars + 1

\* the comparison that closes a line: test.length > maxChars
TooLong(test, maxChars) == Len(test) > maxChars

\* one iteration of the for loop over the words
wrapStep(st, w, maxChars) ==
  LET test == trim(st.cur \o <<SP>> \o w)
  IN IF TooLong(test, maxChars)
       THEN [lines |-> Append(st.lines, trim(st.cur)), cur |-> w]
       ELSE [lines |-> st.lines, cur |-> test]

wrapLines(str, maxChars) ==
  LET words == split(str)
      RECURSIVE loop(_, _)
      loop(i, st) ==
        IF i > Len(words) THEN st
        ELSE loop(i + 1, wrapStep(st, words[i], maxChars))
      fin == loop(1, [lines |-> <<>>, cur |-> <<>>])
  IN IF fin.cur # <<>> THEN Append(fin.lines, trim(fin.cur)) ELSE fin.lines

(***************************************************************************)
(* Small string helpers: the conversions the builders perform.             *)
(***************************************************************************)
\* a character sequence as the string a template literal embeds
RECURSIVE Str(_)
Str(s) == IF s = <<>> THEN "" ELSE Head(s) \o Str(Tail(s))

Digits == {"0", "1", "2", "3", "4", "5", "6", "7", "8", "9"}

DigitVal(c) ==
  CASE c = "0" -> 0 [] c = "1" -> 1 [] c = "2" -> 2 [] c = "3" -> 3
    [] c = "4" -> 4 [] c = "5" -> 5 [] c = "6" -> 6 [] c = "7" -> 7
    [] c = "8" -> 8 [] c = "9" -> 9

\* s.split(sep)[1]: the piece after the first separator, up to the second
secondPiece(s, sep) ==
  LET RECURSIVE skip(_)
      skip(i) == IF i > Len(s) THEN i ELSE IF s[i] = sep THEN i + 1 ELSE skip(i + 1)
      RECURSIVE take(_, _)
      take(i, acc) ==
        IF i > Len(s) \/ s[i] = sep THEN acc ELSE take(i + 1, Append(acc, s[i]))
  IN take(skip(1), <<>>)

\* parseInt(s, 10) of a string that starts with digits
parseInt(s) ==
  LET RECURSIVE go(_, _)
      go(i, n) ==
        IF i > Len(s) \/ s[i] \notin Digits THEN n
        ELSE go(i + 1, 10 * n + DigitVal(s[i]))
  IN go(1, 0)

\* /^\d+x\d+$/.test(ratio)
isWxH(ratio) ==
  \E k \in 2..(Len(ratio) - 1) :
    /\ ratio[k] = "x"
    /\ \A i \in 1..Len(ratio) : i # k => ratio[i] \in Digits

\* The ratio of a payload is any JSON value: a record of its type and of
\* the text String(value) gives, which is what a template literal embeds and
\* what RegExp.prototype.test is applied to.  An array of one string has the
\* text of that string.
JsValue(type, text) == [type |-> type, text |-> text]
JsString(text) == JsValue("string", text)

\* the switch compares with ===, so only a string meets a case of the table;
\* the default branch tests String(ratio) and returns ratio itself
getCanvasSize(ratio) ==
  CASE ratio = JsString(<<"9", ":", "1", "6">>) -> JsString(<<"1", "0", "8", "0", "x", "1", "9", "2", "0">>)
    [] ratio = JsString(<<"1", ":", "1">>) -> JsString(<<"1", "0", "8", "0", "x", "1", "0", "8", "0">>)
    [] ratio = JsString(<<"4", ":", "5">>) -> JsString(<<"1", "0", "8", "0", "x", "1", "3", "5", "0">>)
    [] ratio = JsString(<<"1", "6", ":", "9">>) -> JsString(<<"1", "9", "2", "0", "x", "1", "0", "8", "0">>)
    [] OTHER -> IF isWxH(ratio.text) THEN ratio
                ELSE JsString(<<"1", "0", "8", "0", "x", "1", "0", "8", "0">>)

\* s.replace(/c/g, by) for a single character c
replaceAll(s, c, by) ==
  LET RECURSIVE go(_)
      go(i) == IF i > Len(s) THEN <<>>
               ELSE (IF s[i] = c THEN by ELSE <<s[i]>>) \o go(i + 1)
  IN go(1)

BS == "\\"
QT == "'"
CL == ":"

escapeFFmpegText(s) ==
  replaceAll(replaceAll(replaceAll(s, BS, <<BS, BS>>), QT, <<BS, QT>>), CL, <<BS, CL>>)

\* String.prototype.toLowerCase on the align values the model uses
toLowerCase(s) ==
  CASE s = "Center" -> "center"
    [] s = "RIGHT" -> "right"
    [] OTHER -> s

\* path.join(dir, name)
pathJoin(dir, name) == dir \o "/" \o name

\* the temp directory, character by character: the text-file path built
\* from it is escaped character by character
TempDirChars == <<"/", "a", "p", "p", "/", "t", "e", "m", "p">>
TEMP_DIR == Str(TempDirChars)
OUT_DIR == "/app/output"
\* the font directory and the default font (not win32), character by
\* character: the font path is escaped character by character
FontDir ==
  <<"/", "u", "s", "r", "/", "s", "h", "a", "r", "e", "/", "f", "o", "n", "t", "s">>
  \o <<"/", "t", "r", "u", "e", "t", "y", "p", "e", "/", "d", "e", "j", "a", "v", "u", "/">>
DEFAULT_FONT == FontDir \o <<"D", "e", "j", "a", "V", "u", "S", "a", "n", "s", ".", "t", "t", "f">>

\* a non-negative number as a template literal embeds it
RECURSIVE NumChars(_)
NumChars(n) ==
  LET d == CHOOSE c \in Digits : DigitVal(c) = n % 10
  IN IF n < 10 THEN <<d>> ELSE NumChars(n \div 10) \o <<d>>

\* fontFile.replace(/\\/g, "\\\\").replace(/:/g, "\\:"), and the same
\* replacement on txtPath: backslash and colon, not the single quote
escapePath(s) == replaceAll(replaceAll(s, BS, <<BS, BS>>), CL, <<BS, CL>>)

\* the font file of a text element: FontStyle names a file of the font
\* directory, an absent or empty FontStyle selects the default font
fontFileOf(style) ==
  IF style # <<>> THEN FontDir \o style \o <<".", "t", "t", "f">> ELSE DEFAULT_FONT

(***************************************************************************)
(* Payload elements.  A JavaScript value of varying type is a record with  *)
(* one field for the type and one for the value:                           *)
(*   isNull                the array member is null                        *)
(*   Type                  el.Type                                         *)
(*   vtype, Value          typeof el.Value and, for a string, its text     *)
(*   align                 el.align; "undefined" when absent, "number"     *)
(*                         when it is a number (truthy, no toLowerCase)    *)
(*   hasMax, MaxLineLength Number.isFinite(el.MaxLineLength) and its value *)
(*   hasW, Width, hasH, Height   likewise for el.Width and el.Height       *)
(*   FontStyle             el.FontStyle; empty when absent                 *)
(***************************************************************************)
Element(isNull, Type, vtype, Value, align, hasMax, hasW, hasH) ==
  [isNull |-> isNull, Type |-> Type, vtype |-> vtype, Value |-> Value,
   align |-> align, hasMax |-> hasMax, MaxLineLength |-> 2,
   hasW |-> hasW, Width |-> 200, hasH |-> hasH, Height |-> 100,
   FontStyle |-> <<>>]

\* a text element that names a font
StyledText(Value, align, FontStyle) ==
  [Element(FALSE, "Text", "string", Value, align, FALSE, FALSE, FALSE)
     EXCEPT !.FontStyle = FontStyle]

NullEl == Element(TRUE, "", "undefined", <<>>, "undefined", FALSE, FALSE, FALSE)

ImageEls ==
  {Element(FALSE, "Image", "string", <<"a">>, "undefined", FALSE, w, h) :
     w \in BOOLEAN, h \in BOOLEAN}

TextValues == {<<>>, <<"a", SP, "a">>}

TextEls ==
  {Element(FALSE, "Text", "string", v, al, m, FALSE, FALSE) :
     v \in TextValues, al \in {"undefined", "Center", "right"}, m \in {TRUE}}
  \cup {Element(FALSE, "Text", "string", <<"a">>, "number", FALSE, FALSE, FALSE),
        Element(FALSE, "Text", "string", <<"a", SP, "a">>, "justify", FALSE, FALSE, FALSE)}

\* elements that are objects but no usable layer
UnusableEls ==
  {Element(FALSE, "Shape", "string", <<"a">>, "undefined", FALSE, FALSE, FALSE),
   Element(FALSE, "Text", "undefined", <<>>, "undefined", FALSE, FALSE, FALSE),
   Element(FALSE, "Image", "number", <<>>, "undefined", FALSE, FALSE, FALSE)}

Elements == ImageEls \cup TextEls \cup UnusableEls \cup {NullEl}

SeqsUpTo(S, n) == UNION {[1..k -> S] : k \in 0..n}

Payload(elements, ratio) == [elements |-> elements, ratio |-> ratio]

DefaultRatio == JsString(<<"1", ":", "1">>)

\* the test both branches of the forEach body make
isImage(el) == ~el.isNull /\ el.Type = "Image" /\ el.vtype = "string"
\* a Text test that leaves typeof el.Value unchecked
isTextAnyValue(el) == ~el.isNull /\ el.Type = "Text"

isText(el) == ~el.isNull /\ el.Type = "Text" /\ el.vtype = "string"

(***************************************************************************)
(* Filter-graph stages.  A stage keeps the labels it reads and the label   *)
(* it writes apart from the text of its filter:                            *)
(*   `${ins}` op=args `${out}`, with text / file the drawtext source and   *)
(*   font / textfile the values embedded in fontfile='..', textfile='..'.  *)
(***************************************************************************)
Stage(op, ins, out, args, text, file) ==
  [op |-> op, ins |-> ins, out |-> out, args |-> args, text |-> text, file |-> file,
   font |-> <<>>, textfile |-> <<>>, w |-> "", h |-> ""]

DefaultMaxLineLength == 30
DefaultFontSize == 48
DefaultTextY == 10
DefaultTextX == 10

\* Math.round(size * 1.2) for an integer size
lineHeight(size) == (size * 12 + 5) \div 10

\* a scaled-image label that leaves the element index out
scaledLabelShared(idx) == "[s]"

\* the label of the scaled image of element idx
scaledLabel(idx) == "[s" \o ToString(idx) \o "]"

\* the label of the block drawn for a left-aligned text element idx
blockLabel(idx) == "[t" \o ToString(idx) \o "]"

\* the width and height arguments of the scale filter of an image element,
\* and the crop filter that follows it
scaleArgs(el, canvasH) ==
  IF el.hasW /\ el.hasH
    THEN [w |-> ToString(el.Width), h |-> ToString(el.Height), crop |-> ""]
  ELSE IF el.hasW
    THEN [w |-> ToString(el.Width), h |-> "-1", crop |-> ",crop=" \o ToString(el.Width) \o ":ih"]
  ELSE IF el.hasH
    THEN [w |-> "-1", h |-> ToString(el.Height), crop |-> ",crop=iw:" \o ToString(el.Height)]
  ELSE [w |-> "-1", h |-> ToString(canvasH), crop |-> ""]

\* the text of a scale/crop chain between its labels
chainText(a) == "scale=" \o a.w \o ":" \o a.h \o a.crop

\* the scale/crop chain of an image element (the text between its labels)
scaleChain(el, canvasH) == chainText(scaleArgs(el, canvasH))

\* a raw label that names the index past the input just pushed
rawLabelPastEnd(inputs) == "[" \o ToString(Len(inputs)) \o ":v]"

\* `[${inputs.length - 1}:v]`: the label of the input just pushed
rawLabel(inputs) == "[" \o ToString(Len(inputs) - 1) \o ":v]"

\* the state the forEach callback reads and writes
StageInit(canvasSz) ==
  [threw |-> FALSE,
   tempFiles |-> <<>>,
   writes |-> <<>>,
   inputs |-> <<"-f lavfi -i color=c=white:s=" \o Str(canvasSz.text)>>,
   filters |-> <<>>,
   prev |-> "[0:v]"]

\* the Image branch of the callback
imageBranch(st, el, idx, ts, canvasSz) ==
  LET imgPath == pathJoin(TEMP_DIR, "img_" \o ToString(ts) \o "_" \o ToString(idx) \o ".png")
      inputs == Append(st.inputs, "-i \"" \o imgPath \o "\"")
      raw == rawLabel(inputs)
      scaled == scaledLabel(idx)
      overlaid == "[v" \o ToString(idx) \o "]"
      canvasH == parseInt(secondPiece(canvasSz.text, "x"))
      saved == [st EXCEPT
                  !.tempFiles = Append(@, imgPath),
                  !.writes = Append(@, [path |-> imgPath, data |-> el.Value]),
                  !.inputs = inputs]
  IN IF canvasSz.type # "string"
       THEN [saved EXCEPT !.threw = TRUE]    \* canvasSz.split is no function
     ELSE [saved EXCEPT
        !.filters = @ \o <<[Stage("scale", <<raw>>, scaled, scaleChain(el, canvasH), <<>>, "")
                              EXCEPT !.w = scaleArgs(el, canvasH).w,
                                     !.h = scaleArgs(el, canvasH).h],
                           Stage("overlay", <<st.prev, scaled>>, overlaid, "overlay=0:0", <<>>, "")>>,
        !.prev = overlaid]

\* lines.forEach of the center / right branch
perLineStages(prev, lines, idx, align, escFont) ==
  LET xExpr == IF align = "center" THEN "(w-text_w)/2" ELSE "w-text_w-10"
      lh == lineHeight(DefaultFontSize)
      lbl(i) == "[t" \o ToString(idx) \o "_" \o ToString(i) \o "]"
  IN [k \in 1..Len(lines) |->
        [Stage("drawtext",
               <<IF k = 1 THEN prev ELSE lbl(k - 2)>>,
               lbl(k - 1),
               "fontcolor=white:fontsize=" \o ToString(DefaultFontSize) \o ":x=" \o xExpr
                 \o ":y=" \o ToString(DefaultTextY + (k - 1) * lh),
               escapeFFmpegText(lines[k]),
               "")
           EXCEPT !.font = escFont]]

\* the Text branch of the callback
textBranch(st, el, idx, ts) ==
  LET maxChars == IF el.hasMax THEN el.MaxLineLength ELSE DefaultMaxLineLength
      lines == wrapLines(el.Value, maxChars)
      escFont == escapePath(fontFileOf(el.FontStyle))
  IN IF el.align = "number"
       THEN [st EXCEPT !.threw = TRUE]    \* (el.align || "left").toLowerCase is no function
     ELSE
       LET align == toLowerCase(IF el.align = "undefined" THEN "left" ELSE el.align)
       IN IF align = "center" \/ align = "right"
            THEN LET drawn == perLineStages(st.prev, lines, idx, align, escFont)
                 IN [st EXCEPT
                       !.filters = @ \o drawn,
                       !.prev = IF drawn = <<>> THEN @ ELSE drawn[Len(drawn)].out]
          ELSE
            LET txtChars == TempDirChars \o <<"/", "t", "x", "t", "_">> \o NumChars(ts)
                              \o <<"_">> \o NumChars(idx) \o <<".", "t", "x", "t">>
                txtPath == Str(txtChars)
                lbl == blockLabel(idx)
            IN [st EXCEPT
                  !.tempFiles = Append(@, txtPath),
                  !.writes = Append(@, [path |-> txtPath, data |-> joinNL(lines)]),
                  !.filters = Append(@, [Stage("drawtext", <<st.prev>>, lbl,
                                               "fontcolor=white:fontsize="
                                                 \o ToString(DefaultFontSize) \o ":x=" \o ToString(DefaultTextX)
                                                 \o ":y=" \o ToString(DefaultTextY),
                                               <<>>, txtPath)
                                           EXCEPT !.font = escFont,
                                                  !.textfile = escapePath(txtChars)]),
                  !.prev = lbl]

\* the callback of elements.forEach; an exception ends the loop
forEachBody(st, el, idx, ts, canvasSz) ==
  IF st.threw THEN st
  ELSE IF el.isNull THEN [st EXCEPT !.threw = TRUE]    \* el.Type of null
  ELSE IF isImage(el) THEN imageBranch(st, el, idx, ts, canvasSz)
  ELSE IF isText(el) THEN textBranch(st, el, idx, ts)
  ELSE st

\* elements.forEach((el, idx) => ...), idx from 0
RECURSIVE forEach(_, _, _, _, _)
forEach(st, elements, k, ts, canvasSz) ==
  IF k > Len(elements) THEN st
  ELSE forEach(forEachBody(st, elements[k], k - 1, ts, canvasSz), elements, k + 1, ts, canvasSz)

\* lines 67-171 of composeDynamic: staging, graph, and the final copy stage
buildDynamic(payload, ts) ==
  LET canvasSz == getCanvasSize(payload.ratio)
      st == forEach(StageInit(canvasSz), payload.elements, 1, ts, canvasSz)
  IN IF st.threw THEN st
     ELSE [st EXCEPT !.filters = Append(@, Stage("copy", <<st.prev>>, "[out]", "copy", <<>>, ""))]

outputImgOf(ts) == pathJoin(OUT_DIR, "output_" \o ToString(ts) \o ".png")

(***************************************************************************)
(* The file system and the requests.                                       *)
(***************************************************************************)
Requests == {"r1", "r2"}

Range(f) == {f[i] : i \in DOMAIN f}

exists(files, path) == path \in DOMAIN files

writeFile(files, path, content) ==
  [p \in DOMAIN files \cup {path} |-> IF p = path THEN content ELSE files[p]]

removeFile(files, path) == [p \in DOMAIN files \ {path} |-> files[p]]

\* the fs.writeFileSync calls of one staging pass, in order
RECURSIVE applyWrites(_, _, _)
applyWrites(files, writes, r) ==
  IF writes = <<>> THEN files
  ELSE applyWrites(writeFile(files, Head(writes).path,
                             [by |-> r, data |-> Head(writes).data]),
                   Tail(writes), r)

NoContent == [by |-> "", data |-> <<>>]
EmptyFs == [p \in {} |-> NoContent]

\* a directory, kept among the files under its own path
Dir == [by |-> "mkdir", data |-> <<"/">>]

\* fs.mkdirSync(dir, { recursive: true }): no error when dir exists
ensureDir(files, dir) == IF exists(files, dir) THEN files ELSE writeFile(files, dir, Dir)

\* a request that has not run yet
Request(pc, payload) ==
  [pc |-> pc, payload |-> payload, ts |-> 0,
   tempFiles |-> <<>>, inputs |-> <<>>, filters |-> <<>>, outputImg |-> "",
   spawned |-> FALSE, exit |-> "", readOk |-> FALSE, buffer |-> NoContent,
   result |-> "", response |-> ""]

\* lines 58-185 of composeDynamic: everything up to the first await
composeDynamicStart(r) ==
  /\ req[r].pc = "received"
  /\ LET payload == req[r].payload
         st == buildDynamic(payload, now)
     IN IF Len(payload.elements) = 0
          THEN /\ req' = [req EXCEPT ![r].pc = "settled", ![r].result = "ValidationError"]
               /\ fs' = fs
        ELSE /\ fs' = applyWrites(ensureDir(ensureDir(fs, TEMP_DIR), OUT_DIR), st.writes, r)
             /\ req' = [req EXCEPT
                  ![r].ts = now,
                  ![r].tempFiles = st.tempFiles,
                  ![r].outputImg = outputImgOf(now),
                  ![r].inputs = IF st.threw THEN <<>> ELSE st.inputs,
                  ![r].filters = IF st.threw THEN <<>> ELSE st.filters,
                  ![r].spawned = ~st.threw,
                  ![r].result = IF st.threw THEN "TypeError" ELSE "",
                  ![r].pc = IF st.threw THEN "settled" ELSE "executing"]
  /\ UNCHANGED <<now, pending, wrap, cv, ci, vc, up, cv2>>

\* the ffmpeg child process ends: with the output written, with nothing
\* written, or failing after it had opened the output
ffmpegExit(r) ==
  /\ req[r].pc = "executing"
  /\ \/ /\ fs' = writeFile(fs, req[r].outputImg, [by |-> r, data |-> <<"o">>])
        /\ req' = [req EXCEPT ![r].exit = "ok", ![r].pc = "exited"]
     \/ /\ fs' = fs
        /\ req' = [req EXCEPT ![r].exit = "failed", ![r].pc = "exited"]
     \/ /\ fs' = writeFile(fs, req[r].outputImg, [by |-> r, data |-> <<>>])
        /\ req' = [req EXCEPT ![r].exit = "failed", ![r].pc = "exited"]
  /\ UNCHANGED <<now, pending, wrap, cv, ci, vc, up, cv2>>

\* fs.unlinkSync(outputImg) in the finally block: it throws when the file is
\* absent, and an exception leaving finally replaces the pending outcome
unlinkSync(files, path, primary) ==
  IF exists(files, path)
    THEN [files |-> removeFile(files, path), result |-> primary]
    ELSE [files |-> files, result |-> "UnlinkError"]

\* tempFiles.forEach(f => fs.unlink(f, () => {})): handed to the thread pool
unlinkQueued(r, tempFiles) == {[by |-> r, path |-> f] : f \in Range(tempFiles)}

\* the finally block, entered with the outcome of try / catch
finallyBlock(r, primary) ==
  LET u == unlinkSync(fs, req[r].outputImg, primary)
  IN /\ pending' = pending \cup unlinkQueued(r, req[r].tempFiles)
     /\ fs' = u.files
     /\ req' = [req EXCEPT ![r].result = u.result, ![r].pc = "settled",
                           ![r].readOk = (primary = "bytes"),
                           ![r].buffer = IF primary = "bytes" THEN req[r].buffer ELSE NoContent]

\* the continuation of await execAsync(cmd)
execDone(r) ==
  /\ req[r].pc = "exited"
  /\ \/ /\ req[r].exit = "ok"
        /\ req' = [req EXCEPT ![r].pc = "reading"]
        /\ UNCHANGED <<fs, pending>>
     \/ /\ req[r].exit = "failed"
        /\ finallyBlock(r, "FfmpegError")
  /\ UNCHANGED <<now, wrap, cv, ci, vc, up, cv2>>

\* fs.promises.readFile(outputImg) runs in the thread pool
readFileRun(r) ==
  /\ req[r].pc = "reading"
  /\ req' = [req EXCEPT
       ![r].pc = "read",
       ![r].buffer = IF exists(fs, req[r].outputImg) THEN fs[req[r].outputImg] ELSE NoContent,
       ![r].exit = IF exists(fs, req[r].outputImg) THEN "ok" ELSE "unread"]
  /\ UNCHANGED <<now, fs, pending, wrap, cv, ci, vc, up, cv2>>

\* the continuation of await readFile: return or catch, then finally
readFileDone(r) ==
  /\ req[r].pc = "read"
  /\ finallyBlock(r, IF req[r].exit = "ok" THEN "bytes" ELSE "ReadError")
  /\ UNCHANGED <<now, wrap, cv, ci, vc, up, cv2>>

\* the /composedynamic route sends the buffer or the 400 error
respond(r) ==
  /\ req[r].pc = "settled"
  /\ req' = [req EXCEPT ![r].pc = "responded", ![r].response = req[r].result]
  /\ UNCHANGED <<now, fs, pending, wrap, cv, ci, vc, up, cv2>>

\* the thread pool runs one queued fs.unlink; its error is ignored
unlinkRun ==
  /\ \E u \in pending :
       /\ pending' = pending \ {u}
       /\ fs' = removeFile(fs, u.path)
  /\ UNCHANGED <<now, req, wrap, cv, ci, vc, up, cv2>>

\* the clock advances
Tick ==
  /\ now < MaxTime
  /\ now' = now + 1
  /\ UNCHANGED <<fs, req, pending, wrap, cv, ci, vc, up, cv2>>

(***************************************************************************)
(* One wrapLines call.                                                     *)
(***************************************************************************)
wrapCall ==
  /\ wrap.pc = "ready"
  /\ wrap' = [wrap EXCEPT !.pc = "done", !.lines = wrapLines(wrap.str, wrap.maxChars)]
  /\ UNCHANGED <<now, fs, req, pending, cv, ci, vc, up, cv2>>

WrapOff == [pc |-> "off", str |-> <<>>, maxChars |-> 0, lines |-> <<>>]

(***************************************************************************)
(* createVideo (utils/CreateVideo.js).                                     *)
(***************************************************************************)
\* the label of the stage drawn for line i of element idx: [out] for the
\* last line of the last element of the array
lineLabel(elements, lines, idx, i) ==
  IF idx = Len(elements) - 1 /\ i = Len(lines) - 1
    THEN "[out]"
    ELSE "[t" \o ToString(idx) \o "_" \o ToString(i) \o "]"

DefaultVideoMaxLineLength == 40

\* lines.forEach of the createVideo callback
videoLineStages(prevLabel, elements, lines, idx, align) ==
  LET xExpr == IF align = "center" THEN "(w-text_w)/2"
               ELSE IF align = "right" THEN "w-text_w-10"
               ELSE ToString(DefaultTextX)
      lh == lineHeight(DefaultFontSize)
  IN [k \in 1..Len(lines) |->
        Stage("drawtext",
              <<IF k = 1 THEN prevLabel ELSE lineLabel(elements, lines, idx, k - 2)>>,
              lineLabel(elements, lines, idx, k - 1),
              "fontcolor=white:fontsize=" \o ToString(DefaultFontSize) \o ":x=" \o xExpr
                \o ":y=" \o ToString(DefaultTextY + (k - 1) * lh),
              escapeFFmpegText(lines[k]),
              "")]

\* the callback of elements.forEach in createVideo
videoForEachBody(st, elements, idx) ==
  LET el == elements[idx + 1]
  IN IF st.threw THEN st
     ELSE IF el.isNull THEN [st EXCEPT !.threw = TRUE]    \* el.Type of null
     ELSE IF el.Type # "Text" \/ el.vtype # "string" THEN st
     ELSE IF el.align = "number" THEN [st EXCEPT !.threw = TRUE]
     ELSE
       LET maxChars == IF el.hasMax THEN el.MaxLineLength ELSE DefaultVideoMaxLineLength
           align == toLowerCase(IF el.align = "undefined" THEN "left" ELSE el.align)
           lines == wrapLines(el.Value, maxChars)
           drawn == videoLineStages(st.prevLabel, elements, lines, idx, align)
       IN [st EXCEPT
             !.chains = @ \o drawn,
             !.prevLabel = IF drawn = <<>> THEN @ ELSE drawn[Len(drawn)].out]

RECURSIVE videoForEach(_, _, _)
videoForEach(st, elements, k) ==
  IF k > Len(elements) THEN st
  ELSE videoForEach(videoForEachBody(st, elements, k - 1), elements, k + 1)

\* lines 59-112 of createVideo: the chain of the filter graph
buildVideoChains(elements) ==
  videoForEach([threw |-> FALSE,
                chains |-> <<Stage("scale", <<"[0:v]">>, "[scaled]", "scale=1080:1920", <<>>, "")>>,
                prevLabel |-> "[scaled]"],
               elements, 1)

\* a containerId as the text containerId.toString() and `${containerId}`
\* give, cut into path segments at "/": Date.now() gives one segment of
\* digits, a string of the request body may hold "/" and ".."; no id
\* (undefined, "", 0) is the empty sequence
NoId == <<>>
Id(n) == <<ToString(n)>>

\* the temp and output directories in path segments
TempSegments == <<"app", "temp">>
OutSegments == <<"app", "output">>

\* path.join normalises the joined path: "." is dropped and ".." removes
\* the segment in front of it
RECURSIVE normalize(_, _)
normalize(done, rest) ==
  IF rest = <<>> THEN done
  ELSE IF Head(rest) = "." THEN normalize(done, Tail(rest))
  ELSE IF Head(rest) = ".."
    THEN normalize(IF done = <<>> THEN <<>> ELSE SubSeq(done, 1, Len(done) - 1), Tail(rest))
  ELSE normalize(Append(done, Head(rest)), Tail(rest))

\* the absolute path of a sequence of segments
RECURSIVE pathText(_)
pathText(segments) ==
  IF segments = <<>> THEN ""
  ELSE pathText(SubSeq(segments, 1, Len(segments) - 1)) \o "/" \o segments[Len(segments)]

\* path.join(baseTempDir, containerId.toString())
containerSegments(containerId) == normalize(<<>>, TempSegments \o containerId)

\* path.join(OUT_DIR, `${containerId}.mp4`)
outputSegments(containerId) ==
  normalize(<<>>, OutSegments
                  \o (IF containerId = NoId THEN <<".mp4">>
                      ELSE SubSeq(containerId, 1, Len(containerId) - 1)
                           \o <<containerId[Len(containerId)] \o ".mp4">>))

containerPathOf(containerId) == pathText(containerSegments(containerId))
videoPathOf(containerId) == pathJoin(containerPathOf(containerId), "video.mp4")
audioPathOf(containerId) == pathJoin(containerPathOf(containerId), "audio.mp3")
outputPathOf(containerId) == pathText(outputSegments(containerId))

\* lines 114-141 of createVideo: inputs, maps and the duration option
videoInputs(containerId, hasAudio) ==
  (IF hasAudio THEN <<"-stream_loop", "-1">> ELSE <<>>)
  \o <<"-i \"" \o videoPathOf(containerId) \o "\"">>
  \o (IF hasAudio THEN <<"-i \"" \o audioPathOf(containerId) \o "\"">> ELSE <<>>)

\* maps that take the audio of the base video whatever the inputs are
videoMapsBaseAudio(hasAudio) == <<"-map \"[out]\"", "-map 0:a?">>

videoMaps(hasAudio) == <<"-map \"[out]\"", IF hasAudio THEN "-map 1:a" ELSE "-map 0:a?">>

videoDuration(hasLength, length, hasAudio) ==
  IF hasLength /\ length > 0 THEN <<"-t " \o ToString(length)>>
  ELSE IF hasAudio THEN <<"-shortest">>
  ELSE <<>>

VideoPayload(containerId, elements, hasLength, length) ==
  [containerId |-> containerId, elements |-> elements,
   hasLength |-> hasLength, length |-> length]

VideoCall(pc, payload) ==
  [pc |-> pc, payload |-> payload, chains |-> <<>>, inputs |-> <<>>, maps |-> <<>>,
   duration |-> <<>>, outputPath |-> "", spawned |-> FALSE, exit |-> "",
   result |-> "", response |-> ""]

\* no createVideo call
CvOff == VideoCall("off", VideoPayload(NoId, <<>>, FALSE, 0))

\* lines 38-148 of createVideo: everything up to the await, as the call
\* record and the file system it leaves
createVideoSync(call, files) ==
  LET p == call.payload
      hasAudio == exists(files, audioPathOf(p.containerId))
      st == buildVideoChains(p.elements)
  IN IF p.containerId = NoId \/ Len(p.elements) = 0
       THEN [call |-> [call EXCEPT !.pc = "settled", !.result = "ValidationError"],
             files |-> files]
     ELSE IF ~exists(files, videoPathOf(p.containerId))
       THEN [call |-> [call EXCEPT !.pc = "settled", !.result = "MissingVideoError"],
             files |-> files]
     ELSE [files |-> ensureDir(files, OUT_DIR),
           call |->
             IF st.threw
               THEN [call EXCEPT !.pc = "settled", !.result = "TypeError"]
             ELSE [call EXCEPT
                     !.pc = "executing",
                     !.chains = st.chains,
                     !.inputs = videoInputs(p.containerId, hasAudio),
                     !.maps = videoMaps(hasAudio),
                     !.duration = videoDuration(p.hasLength, p.length, hasAudio),
                     !.outputPath = outputPathOf(p.containerId),
                     !.spawned = TRUE]]

createVideoStart ==
  /\ cv.pc = "received"
  /\ cv' = createVideoSync(cv, fs).call
  /\ fs' = createVideoSync(cv, fs).files
  /\ UNCHANGED <<now, req, pending, wrap, ci, vc, up, cv2>>

\* the ffmpeg child process of createVideo ends
createVideoFfmpegExit ==
  /\ cv.pc = "executing"
  /\ \/ /\ fs' = writeFile(fs, cv.outputPath, [by |-> "cv", data |-> <<"o">>])
        /\ cv' = [cv EXCEPT !.exit = "ok", !.pc = "exited"]
     \/ /\ fs' = fs
        /\ cv' = [cv EXCEPT !.exit = "failed", !.pc = "exited"]
  /\ UNCHANGED <<now, req, pending, wrap, ci, vc, up, cv2>>

\* lines 147-161: the continuation of await execAsync and the empty finally
createVideoExecDone ==
  /\ cv.pc = "exited"
  /\ cv' = [cv EXCEPT !.pc = "settled",
                      !.result = IF cv.exit = "ok" THEN "url" ELSE "FfmpegError"]
  /\ UNCHANGED <<now, fs, req, pending, wrap, ci, vc, up, cv2>>

\* the /createvideo route sends the JSON result or the 400 error
createVideoRespond ==
  /\ cv.pc = "settled"
  /\ cv' = [cv EXCEPT !.pc = "responded", !.response = cv.result]
  /\ UNCHANGED <<now, fs, req, pending, wrap, ci, vc, up, cv2>>

\* a second createVideo request, served while the first is in flight
createVideoStartOther ==
  /\ cv2.pc = "received"
  /\ cv2' = createVideoSync(cv2, fs).call
  /\ fs' = createVideoSync(cv2, fs).files
  /\ UNCHANGED <<now, req, pending, wrap, cv, ci, vc, up>>

createVideoFfmpegExitOther ==
  /\ cv2.pc = "executing"
  /\ \/ /\ fs' = writeFile(fs, cv2.outputPath, [by |-> "cv2", data |-> <<"o">>])
        /\ cv2' = [cv2 EXCEPT !.exit = "ok", !.pc = "exited"]
     \/ /\ fs' = fs
        /\ cv2' = [cv2 EXCEPT !.exit = "failed", !.pc = "exited"]
  /\ UNCHANGED <<now, req, pending, wrap, cv, ci, vc, up>>

createVideoExecDoneOther ==
  /\ cv2.pc = "exited"
  /\ cv2' = [cv2 EXCEPT !.pc = "settled",
                        !.result = IF cv2.exit = "ok" THEN "url" ELSE "FfmpegError"]
  /\ UNCHANGED <<now, fs, req, pending, wrap, cv, ci, vc, up>>

createVideoRespondOther ==
  /\ cv2.pc = "settled"
  /\ cv2' = [cv2 EXCEPT !.pc = "responded", !.response = cv2.result]
  /\ UNCHANGED <<now, fs, req, pending, wrap, cv, ci, vc, up>>


(***************************************************************************)
(* composeVideo (VideoComposer.js, the version that takes base64 video and *)
(* audio and returns the bytes of the composed video).                     *)
(***************************************************************************)
DEFAULT_FONT_VideoComposer == "/usr/share/fonts/truetype/msttcorefonts/arial.ttf"

\* lines.forEach of the composeVideo callback: every alignment is drawn line
\* by line
composeVideoLineStages(prevLabel, lines, idx, align) ==
  LET xExpr == IF align = "center" THEN "(w-text_w)/2"
               ELSE IF align = "right" THEN "w-text_w-10"
               ELSE ToString(DefaultTextX)
      lh == lineHeight(DefaultFontSize)
      lbl(i) == "[t" \o ToString(idx) \o "_" \o ToString(i) \o "]"
  IN [k \in 1..Len(lines) |->
        Stage("drawtext",
              <<IF k = 1 THEN prevLabel ELSE lbl(k - 2)>>,
              lbl(k - 1),
              "fontfile='" \o DEFAULT_FONT_VideoComposer \o "':fontcolor=white:fontsize="
                \o ToString(DefaultFontSize) \o ":x=" \o xExpr
                \o ":y=" \o ToString(DefaultTextY + (k - 1) * lh),
              escapeFFmpegText(lines[k]),
              "")]

\* the callback of elements.forEach in composeVideo
composeVideoForEachBody(st, el, idx) ==
  IF st.threw THEN st
  ELSE IF el.isNull THEN [st EXCEPT !.threw = TRUE]    \* el.Type of null
  ELSE IF el.Type # "Text" \/ el.vtype # "string" THEN st
  ELSE IF el.align = "number" THEN [st EXCEPT !.threw = TRUE]
  ELSE
    LET maxChars == IF el.hasMax THEN el.MaxLineLength ELSE DefaultVideoMaxLineLength
        align == toLowerCase(IF el.align = "undefined" THEN "left" ELSE el.align)
        lines == wrapLines(el.Value, maxChars)
        drawn == composeVideoLineStages(st.prevLabel, lines, idx, align)
    IN [st EXCEPT
          !.chains = @ \o drawn,
          !.prevLabel = IF drawn = <<>> THEN @ ELSE drawn[Len(drawn)].out]

RECURSIVE composeVideoForEach(_, _, _)
composeVideoForEach(st, elements, k) ==
  IF k > Len(elements) THEN st
  ELSE composeVideoForEach(composeVideoForEachBody(st, elements[k], k - 1), elements, k + 1)

\* the chain of the filter graph, closed by the copy stage
composeVideoChains(elements) ==
  LET st == composeVideoForEach([threw |-> FALSE, chains |-> <<>>, prevLabel |-> "[0:v]"],
                                elements, 1)
  IN IF st.threw THEN st
     ELSE [st EXCEPT !.chains = Append(@, Stage("copy", <<st.prevLabel>>, "[out]", "copy", <<>>, ""))]

composeVideoVideoPath(ts) == pathJoin(TEMP_DIR, "input_" \o ToString(ts) \o ".mp4")
composeVideoAudioPath(ts) == pathJoin(TEMP_DIR, "audio_" \o ToString(ts) \o ".mp3")
composeVideoOutputPath(ts) == pathJoin(OUT_DIR, "output_" \o ToString(ts) \o ".mp4")

\* the inputs, the maps and the duration options of the composeVideo command
composeVideoInputs(ts, audio) ==
  (IF audio THEN <<"-stream_loop", "-1">> ELSE <<>>)
  \o <<"-i \"" \o composeVideoVideoPath(ts) \o "\"">>
  \o (IF audio THEN <<"-i \"" \o composeVideoAudioPath(ts) \o "\"">> ELSE <<>>)

composeVideoMaps(audio) == <<"-map \"[out]\"", IF audio THEN "-map 1:a" ELSE "-map 0:a?">>

composeVideoDuration(hasLength, length, audio) ==
  (IF audio THEN <<"-shortest">> ELSE <<>>)
  \o (IF hasLength /\ length > 0 THEN <<"-t " \o ToString(length)>> ELSE <<>>)

\* video, audio: whether the payload carries a non-empty base64 string
ComposeVideoPayload(video, audio, elements, hasLength, length) ==
  [video |-> video, audio |-> audio, elements |-> elements,
   hasLength |-> hasLength, length |-> length]

ComposeVideoCall(pc, payload) ==
  [pc |-> pc, payload |-> payload, ts |-> 0, tempFiles |-> <<>>,
   chains |-> <<>>, inputs |-> <<>>, maps |-> <<>>, duration |-> <<>>,
   outputPath |-> "", spawned |-> FALSE, exit |-> "", buffer |-> NoContent,
   result |-> "", response |-> ""]

\* no composeVideo call
VcOff == ComposeVideoCall("off", ComposeVideoPayload(FALSE, FALSE, <<>>, FALSE, 0))

\* composeVideo up to the await: validation, staging, graph and command
composeVideoStart ==
  /\ vc.pc = "received"
  /\ LET p == vc.payload
         videoPath == composeVideoVideoPath(now)
         audioPath == composeVideoAudioPath(now)
         dirs == ensureDir(ensureDir(fs, TEMP_DIR), OUT_DIR)
         staged == writeFile(dirs, videoPath, [by |-> "vc", data |-> <<"v">>])
         st == composeVideoChains(p.elements)
     IN IF ~p.video \/ Len(p.elements) = 0
          THEN /\ vc' = [vc EXCEPT !.pc = "settled", !.result = "ValidationError"]
               /\ fs' = fs
        ELSE /\ fs' = IF p.audio
                        THEN writeFile(staged, audioPath, [by |-> "vc", data |-> <<"m">>])
                        ELSE staged
             /\ vc' = [vc EXCEPT
                  !.ts = now,
                  !.tempFiles = IF p.audio THEN <<videoPath, audioPath>> ELSE <<videoPath>>,
                  !.outputPath = composeVideoOutputPath(now),
                  !.chains = IF st.threw THEN <<>> ELSE st.chains,
                  !.inputs = IF st.threw THEN <<>> ELSE composeVideoInputs(now, p.audio),
                  !.maps = IF st.threw THEN <<>> ELSE composeVideoMaps(p.audio),
                  !.duration = IF st.threw THEN <<>>
                               ELSE composeVideoDuration(p.hasLength, p.length, p.audio),
                  !.spawned = ~st.threw,
                  !.result = IF st.threw THEN "TypeError" ELSE "",
                  !.pc = IF st.threw THEN "settled" ELSE "executing"]
  /\ UNCHANGED <<now, req, pending, wrap, cv, ci, up, cv2>>

\* the ffmpeg child process of composeVideo ends
composeVideoFfmpegExit ==
  /\ vc.pc = "executing"
  /\ \/ /\ fs' = writeFile(fs, vc.outputPath, [by |-> "vc", data |-> <<"o">>])
        /\ vc' = [vc EXCEPT !.exit = "ok", !.pc = "exited"]
     \/ /\ fs' = fs
        /\ vc' = [vc EXCEPT !.exit = "failed", !.pc = "exited"]
     \/ /\ fs' = writeFile(fs, vc.outputPath, [by |-> "vc", data |-> <<>>])
        /\ vc' = [vc EXCEPT !.exit = "failed", !.pc = "exited"]
  /\ UNCHANGED <<now, req, pending, wrap, cv, ci, up, cv2>>

\* paths.forEach(f => fs.unlinkSync(f)): the first absent file throws and
\* ends the loop
RECURSIVE unlinkAllSync(_, _, _)
unlinkAllSync(files, paths, primary) ==
  IF paths = <<>> THEN [files |-> files, result |-> primary]
  ELSE IF ~exists(files, Head(paths)) THEN [files |-> files, result |-> "UnlinkError"]
  ELSE unlinkAllSync(removeFile(files, Head(paths)), Tail(paths), primary)

\* the finally block of composeVideo: temp files, then the output, all
\* removed synchronously
composeVideoFinally(primary) ==
  LET u == unlinkAllSync(fs, Append(vc.tempFiles, vc.outputPath), primary)
  IN /\ fs' = u.files
     /\ vc' = [vc EXCEPT !.result = u.result, !.pc = "settled",
                         !.buffer = IF primary = "bytes" THEN vc.buffer ELSE NoContent]

\* the continuation of await execAsync(cmd) in composeVideo
composeVideoExecDone ==
  /\ vc.pc = "exited"
  /\ \/ /\ vc.exit = "ok"
        /\ vc' = [vc EXCEPT !.pc = "read",
                            !.buffer = IF exists(fs, vc.outputPath)
                                         THEN fs[vc.outputPath] ELSE NoContent,
                            !.exit = IF exists(fs, vc.outputPath) THEN "ok" ELSE "unread"]
        /\ fs' = fs
     \/ /\ vc.exit = "failed"
        /\ composeVideoFinally("FfmpegError")
  /\ UNCHANGED <<now, req, pending, wrap, cv, ci, up, cv2>>

\* the continuation of await readFile in composeVideo: return or catch,
\* then finally
composeVideoReadDone ==
  /\ vc.pc = "read"
  /\ composeVideoFinally(IF vc.exit = "ok" THEN "bytes" ELSE "ReadError")
  /\ UNCHANGED <<now, req, pending, wrap, cv, ci, up, cv2>>

\* the /composevideo route sends the buffer or the 400 error
composeVideoRespond ==
  /\ vc.pc = "settled"
  /\ vc' = [vc EXCEPT !.pc = "responded", !.response = vc.result]
  /\ UNCHANGED <<now, fs, req, pending, wrap, cv, ci, up, cv2>>

(***************************************************************************)
(* composeImage (utils/ImageComposer.js).                                  *)
(***************************************************************************)
FONT_PATH == "/usr/share/fonts/truetype/dejavu/DejaVuSans.ttf"

\* getCanvasSize of ImageComposer.js: the longer table
getCanvasSize_ImageComposer(ratio) ==
  CASE ratio = JsString(<<"9", ":", "1", "6">>) -> JsString(<<"1", "0", "8", "0", "x", "1", "9", "2", "0">>)
    [] ratio = JsString(<<"1", ":", "1">>) -> JsString(<<"1", "0", "8", "0", "x", "1", "0", "8", "0">>)
    [] ratio = JsString(<<"4", ":", "5">>) -> JsString(<<"1", "0", "8", "0", "x", "1", "3", "5", "0">>)
    [] ratio = JsString(<<"1", "6", ":", "9">>) -> JsString(<<"1", "9", "2", "0", "x", "1", "0", "8", "0">>)
    [] ratio = JsString(<<"2", ":", "3">>) -> JsString(<<"1", "0", "8", "0", "x", "1", "6", "2", "0">>)
    [] ratio = JsString(<<"3", ":", "4">>) -> JsString(<<"1", "0", "8", "0", "x", "1", "4", "4", "0">>)
    [] ratio = JsString(<<"3", ":", "2">>) -> JsString(<<"1", "6", "2", "0", "x", "1", "0", "8", "0">>)
    [] ratio = JsString(<<"2", "1", ":", "9">>) -> JsString(<<"2", "5", "2", "0", "x", "1", "0", "8", "0">>)
    [] ratio = JsString(<<"5", ":", "7">>) -> JsString(<<"1", "0", "8", "0", "x", "1", "5", "1", "2">>)
    [] ratio = JsString(<<"5", ":", "4">>) -> JsString(<<"1", "3", "5", "0", "x", "1", "0", "8", "0">>)
    [] OTHER -> IF isWxH(ratio.text) THEN ratio
                ELSE JsString(<<"1", "0", "8", "0", "x", "1", "0", "8", "0">>)

\* the scale/crop chain of an image element in composeImage
composeImageScaleArgs(el, canvasHeight) ==
  IF el.hasW /\ el.hasH
    THEN [w |-> ToString(el.Width), h |-> ToString(el.Height), crop |-> ""]
  ELSE IF el.hasW
    THEN [w |-> ToString(el.Width), h |-> "-1", crop |-> ",crop=" \o ToString(el.Width) \o ":ih"]
  ELSE IF el.hasH
    THEN [w |-> "iw", h |-> "-1", crop |-> ",crop=iw:" \o ToString(el.Height)]
  ELSE [w |-> "-1", h |-> ToString(canvasHeight), crop |-> ""]

composeImageScaleChain(el, canvasHeight) == chainText(composeImageScaleArgs(el, canvasHeight))

\* the Image branch of the composeImage callback
composeImageImageBranch(st, el, idx, ts, canvasSz) ==
  LET tempPath == pathJoin(TEMP_DIR, "img_" \o ToString(ts) \o "_" \o ToString(idx) \o ".png")
      inputs == Append(st.inputs, "-i \"" \o tempPath \o "\"")
      raw == "[" \o ToString(Len(inputs) - 1) \o ":v]"
      labelS == "[scl" \o ToString(idx) \o "]"
      labelO == "[v" \o ToString(idx) \o "]"
      canvasHeight == parseInt(secondPiece(canvasSz.text, "x"))
      saved == [st EXCEPT
                  !.tempFiles = Append(@, tempPath),
                  !.writes = Append(@, [path |-> tempPath, data |-> el.Value]),
                  !.inputs = inputs]
  IN IF canvasSz.type # "string"
       THEN [saved EXCEPT !.threw = TRUE]    \* canvasSz.split is no function
     ELSE [saved EXCEPT
        !.filters = @ \o <<[Stage("scale", <<raw>>, labelS,
                                  composeImageScaleChain(el, canvasHeight), <<>>, "")
                              EXCEPT !.w = composeImageScaleArgs(el, canvasHeight).w,
                                     !.h = composeImageScaleArgs(el, canvasHeight).h],
                           Stage("overlay", <<st.prev, labelS>>, labelO, "overlay=0:0", <<>>, "")>>,
        !.prev = labelO]

\* the Text branch of the composeImage callback: one drawtext, no wrapping
composeImageTextBranch(st, el, idx) ==
  LET labelO == "[v" \o ToString(idx) \o "]"
  IN [st EXCEPT
        !.filters = Append(@, Stage("drawtext", <<st.prev>>, labelO,
                                    "fontfile='" \o FONT_PATH \o "':fontcolor=white:fontsize="
                                      \o ToString(DefaultFontSize) \o ":x=0:y=0",
                                    escapeFFmpegText(el.Value), "")),
        !.prev = labelO]

\* the callback of elements.forEach in composeImage
composeImageForEachBody(st, el, idx, ts, canvasSz) ==
  IF st.threw THEN st
  ELSE IF el.isNull THEN [st EXCEPT !.threw = TRUE]    \* el.Type of null
  ELSE IF el.Type = "Image" /\ el.vtype = "string"
    THEN composeImageImageBranch(st, el, idx, ts, canvasSz)
  ELSE IF el.Type = "Text" /\ el.vtype = "string"
    THEN composeImageTextBranch(st, el, idx)
  ELSE st

RECURSIVE composeImageForEach(_, _, _, _, _)
composeImageForEach(st, elements, k, ts, canvasSz) ==
  IF k > Len(elements) THEN st
  ELSE composeImageForEach(composeImageForEachBody(st, elements[k], k - 1, ts, canvasSz),
                           elements, k + 1, ts, canvasSz)

\* lines 73-139 of composeImage: staging, graph, and the final copy stage
buildImage(payload, ts) ==
  LET canvasSz == getCanvasSize_ImageComposer(payload.ratio)
      st0 == [StageInit(canvasSz) EXCEPT
                !.inputs = <<"-f lavfi -i \"color=c=white:s=" \o Str(canvasSz.text) \o "\"">>]
      st == composeImageForEach(st0, payload.elements, 1, ts, canvasSz)
  IN IF st.threw THEN st
     ELSE [st EXCEPT !.filters = Append(@, Stage("copy", <<st.prev>>, "[out]", "copy", <<>>, ""))]

\* no composeImage call
CiOff == Request("off", Payload(<<>>, DefaultRatio))

\* lines 62-154 of composeImage: everything up to the first await
composeImageStart ==
  /\ ci.pc = "received"
  /\ LET payload == ci.payload
         st == buildImage(payload, now)
     IN IF Len(payload.elements) = 0
          THEN /\ ci' = [ci EXCEPT !.pc = "settled", !.result = "ValidationError"]
               /\ fs' = fs
        ELSE /\ fs' = applyWrites(ensureDir(ensureDir(fs, TEMP_DIR), OUT_DIR), st.writes, "ci")
             /\ ci' = [ci EXCEPT
                  !.ts = now,
                  !.tempFiles = st.tempFiles,
                  !.outputImg = outputImgOf(now),
                  !.inputs = IF st.threw THEN <<>> ELSE st.inputs,
                  !.filters = IF st.threw THEN <<>> ELSE st.filters,
                  !.spawned = ~st.threw,
                  !.result = IF st.threw THEN "TypeError" ELSE "",
                  !.pc = IF st.threw THEN "settled" ELSE "executing"]
  /\ UNCHANGED <<now, req, pending, wrap, cv, vc, up, cv2>>

\* the ffmpeg child process of composeImage ends
composeImageFfmpegExit ==
  /\ ci.pc = "executing"
  /\ \/ /\ fs' = writeFile(fs, ci.outputImg, [by |-> "ci", data |-> <<"o">>])
        /\ ci' = [ci EXCEPT !.exit = "ok", !.pc = "exited"]
     \/ /\ fs' = fs
        /\ ci' = [ci EXCEPT !.exit = "failed", !.pc = "exited"]
     \/ /\ fs' = writeFile(fs, ci.outputImg, [by |-> "ci", data |-> <<>>])
        /\ ci' = [ci EXCEPT !.exit = "failed", !.pc = "exited"]
  /\ UNCHANGED <<now, req, pending, wrap, cv, vc, up, cv2>>

\* the finally block of composeImage: the scratch files are handed to
\* fs.unlink, the output file is left alone
composeImageFinally(primary) ==
  /\ pending' = pending \cup unlinkQueued("ci", ci.tempFiles)
  /\ ci' = [ci EXCEPT !.result = primary, !.pc = "settled",
                      !.readOk = (primary = "bytes"),
                      !.buffer = IF primary = "bytes" THEN ci.buffer ELSE NoContent]

\* the continuation of await execAsync(cmd) in composeImage
composeImageExecDone ==
  /\ ci.pc = "exited"
  /\ \/ /\ ci.exit = "ok"
        /\ ci' = [ci EXCEPT !.pc = "reading"]
        /\ pending' = pending
     \/ /\ ci.exit = "failed"
        /\ composeImageFinally("FfmpegError")
  /\ UNCHANGED <<now, fs, req, wrap, cv, vc, up, cv2>>

\* fs.promises.readFile(outputImg) of composeImage runs in the thread pool
composeImageReadFileRun ==
  /\ ci.pc = "reading"
  /\ ci' = [ci EXCEPT
       !.pc = "read",
       !.buffer = IF exists(fs, ci.outputImg) THEN fs[ci.outputImg] ELSE NoContent,
       !.exit = IF exists(fs, ci.outputImg) THEN "ok" ELSE "unread"]
  /\ UNCHANGED <<now, fs, req, pending, wrap, cv, vc, up, cv2>>

\* the continuation of await readFile in composeImage, then finally
composeImageReadFileDone ==
  /\ ci.pc = "read"
  /\ composeImageFinally(IF ci.exit = "ok" THEN "bytes" ELSE "ReadError")
  /\ UNCHANGED <<now, fs, req, wrap, cv, vc, up, cv2>>

\* the /composeimage route sends the buffer or the 400 error
composeImageRespond ==
  /\ ci.pc = "settled"
  /\ ci' = [ci EXCEPT !.pc = "responded", !.response = ci.result]
  /\ UNCHANGED <<now, fs, req, pending, wrap, cv, vc, up, cv2>>

(***************************************************************************)
(* Containers and uploads (utils/Container.js, utils/VideoUploader.js,     *)
(* utils/AudioUploader.js).  No handler removes or renames a container     *)
(* directory, so the awaits of one container call are taken in one step.   *)
(***************************************************************************)
\* path.extname(name) of a file name without directories: from the last dot
\* to the end, empty when there is no dot or the name starts with its only dot
extname(name) ==
  LET dots == {i \in 1..Len(name) : name[i] = "."}
      last == CHOOSE i \in dots : \A j \in dots : j <= i
  IN IF dots = {} \/ last = 1 THEN <<>> ELSE SubSeq(name, last, Len(name))

\* an upload that skips the look at the container directory
containerFoundUnchecked(files, containerPath) == TRUE

\* await fs.access(containerPath): whether the container directory is there
containerFound(files, containerPath) == exists(files, containerPath)

\* the last container call: its name, its arguments and its outcome; the ids
\* createContainer has returned, the ids a video was uploaded for, and the
\* number of upload calls made
ContainerCall(op, containerId, hasFile, name, result, created, uploaded, calls, returned) ==
  [op |-> op, containerId |-> containerId, hasFile |-> hasFile, name |-> name,
   result |-> result, created |-> created, uploaded |-> uploaded, calls |-> calls,
   returned |-> returned]

\* no container call yet
UpOff == ContainerCall("", NoId, FALSE, <<>>, "", {}, {}, 0, <<>>)

\* createContainer: the id is the clock value, and both mkdir calls are
\* recursive, so they succeed on a directory that is already there
createContainer ==
  /\ Len(up.returned) < MaxContainers
  /\ fs' = ensureDir(ensureDir(fs, TEMP_DIR), containerPathOf(Id(now)))
  /\ up' = ContainerCall("createContainer", Id(now), FALSE, <<>>, "ok",
                         up.created \cup {Id(now)}, up.uploaded, up.calls,
                         Append(up.returned, Id(now)))
  /\ UNCHANGED <<now, req, pending, wrap, cv, ci, vc, cv2>>

\* file.buffer of the n-th upload call: every call brings bytes of its own
uploadBuffer(base, n) == <<base, ToString(n)>>

\* the body shared by uploadVideo and uploadAudio: base is "video" / "audio"
upload(op, base, containerId, hasFile, name) ==
  LET containerPath == containerPathOf(containerId)
      outputPath == pathJoin(containerPath, base \o Str(extname(name)))
      result == IF containerId = NoId \/ ~hasFile THEN "ValidationError"
                ELSE IF ~containerFound(fs, containerPath) THEN "ContainerNotFound"
                ELSE "ok"
  IN /\ fs' = IF result = "ok"
                THEN writeFile(fs, outputPath,
                               [by |-> "upload", data |-> uploadBuffer(base, up.calls + 1)])
                ELSE fs
     /\ up' = ContainerCall(op, containerId, hasFile, name, result, up.created,
                            IF result = "ok" /\ op = "uploadVideo"
                              THEN up.uploaded \cup {containerId} ELSE up.uploaded,
                            up.calls + 1, up.returned)

\* the file names uploads arrive with
UploadNames ==
  {<<"a", ".", "m", "p", "4">>, <<"a", ".", "m", "o", "v">>,
   <<"a", ".", "m", "p", "3">>, <<"a">>}

\* the container ids requests name: none, and the clock values, which are
\* the ids of the containers made and of containers never made
ContainerIds == {NoId} \cup {Id(n) : n \in 1..MaxTime}

\* the container ids a request body can hold as a string: paths with ".."
\* and "." segments
TraversalIds == {<<"..", "output">>, <<"..", "output", ".">>, <<"..", "temp", "1">>, <<".">>}

\* an upload call with its containerId taken from the given ids
uploadFrom(ids, op, base) ==
  /\ up.calls < MaxUploads
  /\ \E id \in ids, hasFile \in BOOLEAN, name \in UploadNames :
       upload(op, base, id, hasFile, name)

uploadVideo ==
  /\ uploadFrom(ContainerIds, "uploadVideo", "video")
  /\ UNCHANGED <<now, req, pending, wrap, cv, ci, vc, cv2>>

uploadAudio ==
  /\ uploadFrom(ContainerIds, "uploadAudio", "audio")
  /\ UNCHANGED <<now, req, pending, wrap, cv, ci, vc, cv2>>

\* uploads whose containerId text field holds any string
uploadVideoAnyId ==
  /\ uploadFrom(ContainerIds \cup TraversalIds, "uploadVideo", "video")
  /\ UNCHANGED <<now, req, pending, wrap, cv, ci, vc, cv2>>

uploadAudioAnyId ==
  /\ uploadFrom(ContainerIds \cup TraversalIds, "uploadAudio", "audio")
  /\ UNCHANGED <<now, req, pending, wrap, cv, ci, vc, cv2>>

(***************************************************************************)
(* Specifications.                                                         *)
(***************************************************************************)
\* the payloads of the two concurrent requests
ConcurrentPayloads ==
  {Payload(e, DefaultRatio) : e \in
     {<<>>,
      <<Element(FALSE, "Image", "string", <<"a">>, "undefined", FALSE, FALSE, FALSE)>>,
      <<Element(FALSE, "Text", "string", <<"a", SP, "a">>, "undefined", FALSE, FALSE, FALSE)>>,
      <<Element(FALSE, "Shape", "string", <<"a">>, "undefined", FALSE, FALSE, FALSE)>>,
      <<Element(FALSE, "Image", "string", <<"a">>, "undefined", FALSE, FALSE, FALSE), NullEl>>}}

Init ==
  /\ now = 0
  /\ fs = EmptyFs
  /\ pending = {}
  /\ req \in [Requests -> {Request("received", p) : p \in ConcurrentPayloads}]
  /\ wrap = WrapOff
  /\ cv = CvOff
  /\ ci = CiOff
  /\ vc = VcOff
  /\ up = UpOff
  /\ cv2 = CvOff

NextGraph ==
  \/ \E r \in Requests : composeDynamicStart(r)
  \/ \E r \in Requests : ffmpegExit(r)
  \/ \E r \in Requests : execDone(r)
  \/ \E r \in Requests : readFileRun(r)
  \/ \E r \in Requests : readFileDone(r)
  \/ \E r \in Requests : respond(r)
  \/ unlinkRun

Next == NextGraph \/ Tick

Spec == Init /\ [][Next]_vars

\* one request, every payload of at most MaxElements elements, the clock held
InitGraph ==
  /\ now = 0
  /\ fs = EmptyFs
  /\ pending = {}
  /\ \E p \in {Payload(e, DefaultRatio) : e \in SeqsUpTo(Elements, MaxElements)} :
       req = [r \in Requests |->
                IF r = "r1" THEN Request("received", p)
                ELSE Request("off", Payload(<<>>, DefaultRatio))]
  /\ wrap = WrapOff
  /\ cv = CvOff
  /\ ci = CiOff
  /\ vc = VcOff
  /\ up = UpOff
  /\ cv2 = CvOff

SpecGraph == InitGraph /\ [][NextGraph]_vars

\* one wrapLines call on every string and limit within the bounds
InitWrap ==
  /\ now = 0
  /\ fs = EmptyFs
  /\ pending = {}
  /\ req = [r \in Requests |-> Request("off", Payload(<<>>, DefaultRatio))]
  /\ \E s \in StringsUpTo(MaxLen), m \in (0 - 2)..MaxChars :
       wrap = [pc |-> "ready", str |-> s, maxChars |-> m, lines |-> <<>>]
  /\ cv = CvOff
  /\ ci = CiOff
  /\ vc = VcOff
  /\ up = UpOff
  /\ cv2 = CvOff

NextWrap == wrapCall

SpecWrap == InitWrap /\ [][NextWrap]_vars

(***************************************************************************)
(* Properties of the request life cycle.                                   *)
(***************************************************************************)
started(r) == req[r].pc \notin {"off", "received"}
inFlight(r) == req[r].pc \in {"executing", "exited", "reading", "read"}
unlinksLeft(r) == {u \in pending : u.by = r}
\* the scratch files request r wrote that are still on disk as it wrote them
scratchLeft(r) == {f \in Range(req[r].tempFiles) : exists(fs, f) /\ fs[f].by = r}

\* C1: once a composeDynamic request has completed, whatever its outcome, and
\* the unlink calls it queued have run, none of the scratch files it wrote
\* (img_<ts>_<idx>.png, txt_<ts>_<idx>.txt) is left in the temp directory.
ScratchRemovedAfterRequest ==
  \A r \in Requests :
    (req[r].pc = "responded" /\ unlinksLeft(r) = {}) => scratchLeft(r) = {}

\* C2: a failure while removing a file never changes what the caller
\* receives: after a failed ffmpeg run the caller receives the ffmpeg error,
\* and after a successful run and read it receives the artifact bytes.
CleanupNeverMasksOutcome ==
  \A r \in Requests :
    req[r].pc = "responded" =>
      /\ req[r].exit = "failed" => req[r].response = "FfmpegError"
      /\ (req[r].exit = "ok" /\ req[r].readOk) => req[r].response = "bytes"

\* C3: two requests whose executions overlap write disjoint sets of scratch
\* file paths, for any start times.
ScratchPathsDisjoint ==
  \A r1, r2 \in Requests :
    (r1 # r2 /\ inFlight(r1) /\ inFlight(r2)) =>
      Range(req[r1].tempFiles) \cap Range(req[r2].tempFiles) = {}

\* a usable layer: a Text or Image element with a string Value
usableLayer(el) == ~el.isNull /\ el.Type \in {"Image", "Text"} /\ el.vtype = "string"

noUsableLayer(payload) ==
  \A k \in 1..Len(payload.elements) : ~usableLayer(payload.elements[k])

\* C4: a request whose elements yield no usable layer fails with a
\* validation error, writes no scratch file and spawns no ffmpeg process.
NoUsableLayerIsRejected ==
  \A r \in Requests :
    (started(r) /\ noUsableLayer(req[r].payload)) =>
      /\ ~req[r].spawned
      /\ req[r].tempFiles = <<>>
      /\ req[r].pc \in {"settled", "responded"}
      /\ req[r].result = "ValidationError"

\* C8: a request that was validated, staged and executed is cleaned up
\* before it is responded to: when its result or error is delivered, the
\* removal of all its scratch files has completed; and nothing is staged
\* when validation has failed.
CleanedUpBeforeResponded ==
  \A r \in Requests :
    /\ (req[r].pc = "responded" /\ req[r].spawned) =>
         (unlinksLeft(r) = {} /\ scratchLeft(r) = {})
    /\ req[r].result = "ValidationError" => req[r].tempFiles = <<>>

(***************************************************************************)
(* Properties of the filter graph of composeDynamic.                       *)
(***************************************************************************)
inputLabels(inputs) == {"[" \o ToString(k) \o ":v]" : k \in 0..(Len(inputs) - 1)}

\* C5: in every filter graph composeDynamic builds, the stage output labels
\* are pairwise distinct, every label a stage reads is an input label or the
\* output label of an earlier stage, and [out] is produced exactly once, by
\* the last stage.
GraphLabelsWellFormed ==
  \A r \in Requests :
    req[r].spawned =>
      LET f == req[r].filters
          n == Len(f)
      IN /\ \A i, j \in 1..n : i # j => f[i].out # f[j].out
         /\ \A i \in 1..n : \A l \in Range(f[i].ins) :
              \/ l \in inputLabels(req[r].inputs)
              \/ \E j \in 1..(i - 1) : f[j].out = l
         /\ n >= 1
         /\ f[n].out = "[out]"
         /\ \A i \in 1..(n - 1) : f[i].out # "[out]"

\* C5 witness: a graph of an image layer and a text layer drawn line by line
GraphLabelsWitness ==
  \E r \in Requests :
    /\ req[r].spawned
    /\ Len(req[r].filters) >= 5
    /\ \E i \in 1..Len(req[r].filters) : req[r].filters[i].op = "overlay"

\* a label or path named by where it was produced, not by the element index
producer(f, i, l) ==
  IF \E j \in 1..(i - 1) : f[j].out = l
    THEN "stage" \o ToString(CHOOSE j \in 1..(i - 1) : f[j].out = l)
    ELSE l

position(files, path) ==
  IF path = "" THEN "" ELSE "file" \o ToString(CHOOSE k \in 1..Len(files) : files[k] = path)

\* a graph up to the element index used in its label and file names
upToIndex(f, tempFiles) ==
  [i \in 1..Len(f) |->
     [op |-> f[i].op, args |-> f[i].args, text |-> f[i].text,
      ins |-> [k \in 1..Len(f[i].ins) |-> producer(f, i, f[i].ins[k])],
      file |-> position(tempFiles, f[i].file)]]

\* elements.filter(usable)
RECURSIVE usableOnly(_)
usableOnly(elements) ==
  IF elements = <<>> THEN <<>>
  ELSE IF usableLayer(Head(elements))
    THEN <<Head(elements)>> \o usableOnly(Tail(elements))
  ELSE usableOnly(Tail(elements))

hasNull(elements) == \E k \in 1..Len(elements) : elements[k].isNull

isSingleWord(line) == line # <<>> /\ SP \notin Range(line)

linesBounded(lines, maxChars) ==
  \A i \in 1..Len(lines) : Len(lines[i]) <= maxChars \/ isSingleWord(lines[i])

WrapLinesNonEmpty ==
  wrap.pc = "done" =>
    /\ Len(wrap.lines) >= 1
    /\ Range(wrap.str) \subseteq {SP} => wrap.lines = <<<<>>>>

\* the non-empty pieces of str.split(" ")
nonEmptyWords(str) == SelectSeq(split(str), LAMBDA w : w # <<>>)

\* the words of the lines, read in order
RECURSIVE wordsOfLines(_)
wordsOfLines(lines) ==
  IF lines = <<>> THEN <<>>
  ELSE nonEmptyWords(Head(lines)) \o wordsOfLines(Tail(lines))

\* C11: wrapLines packs greedily and never splits a word: the lines hold
\* exactly the non-empty space-delimited words of the input, in order; a
\* line ends only where the next word and its separating space would not
\* fit; and no empty line is produced for a word longer than maxChars.
\* Stated for inputs without a newline and limits of at least 1, the cases
\* in which what a word is and what fits are not in doubt.
WrapLinesGreedy ==
  (wrap.pc = "done" /\ wrap.maxChars >= 1 /\ NL \notin Range(wrap.str)) =>
    /\ wordsOfLines(wrap.lines) = nonEmptyWords(wrap.str)
    /\ \A i \in 1..(Len(wrap.lines) - 1) :
         Len(wrap.lines[i]) + 1 + Len(Head(nonEmptyWords(wrap.lines[i + 1]))) > wrap.maxChars
    /\ (\E k \in 1..Len(nonEmptyWords(wrap.str)) :
          Len(nonEmptyWords(wrap.str)[k]) > wrap.maxChars)
         => \A i \in 1..Len(wrap.lines) : wrap.lines[i] # <<>>

\* C12: wrapLines is idempotent on re-wrap: joining the lines of a wrap with
\* newlines and wrapping the joined text again with the same limit gives the
\* same text, line break for line break.  Stated for single-line inputs and
\* limits of at least 1.
WrapLinesIdempotent ==
  (wrap.pc = "done" /\ wrap.maxChars >= 1 /\ NL \notin Range(wrap.str)) =>
    joinNL(wrapLines(joinNL(wrap.lines), wrap.maxChars)) = joinNL(wrap.lines)

(***************************************************************************)
(* createVideo: one call against a temp directory that holds container 7.  *)
(***************************************************************************)
ContainerFiles ==
  {EmptyFs,
   writeFile(EmptyFs, videoPathOf(Id(7)), [by |-> "upload", data |-> <<"v">>]),
   writeFile(writeFile(EmptyFs, videoPathOf(Id(7)), [by |-> "upload", data |-> <<"v">>]),
             audioPathOf(Id(7)), [by |-> "upload", data |-> <<"m">>])}

InitVideo ==
  /\ now = 0
  /\ fs \in ContainerFiles
  /\ pending = {}
  /\ req = [r \in Requests |-> Request("off", Payload(<<>>, DefaultRatio))]
  /\ wrap = WrapOff
  /\ \E id \in {NoId, Id(7)}, e \in SeqsUpTo(Elements, MaxElements), hl \in BOOLEAN :
       cv = VideoCall("received", VideoPayload(id, e, hl, 5))
  /\ ci = CiOff
  /\ vc = VcOff
  /\ up = UpOff
  /\ cv2 = CvOff

NextVideo ==
  \/ createVideoStart
  \/ createVideoFfmpegExit
  \/ createVideoExecDone
  \/ createVideoRespond

SpecVideo == InitVideo /\ [][NextVideo]_vars

\* C6: for every payload createVideo accepts, the graph it builds has exactly
\* one stage whose output label is [out], and that stage is the last of the
\* chain, so -map "[out]" names a defined label.
VideoGraphEndsInOut ==
  cv.spawned =>
    LET n == Len(cv.chains)
    IN /\ cv.chains[n].out = "[out]"
       /\ \A i \in 1..(n - 1) : cv.chains[i].out # "[out]"

(***************************************************************************)
(* composeVideo: one call.                                                 *)
(***************************************************************************)
InitComposeVideo ==
  /\ now = 0
  /\ fs = EmptyFs
  /\ pending = {}
  /\ req = [r \in Requests |-> Request("off", Payload(<<>>, DefaultRatio))]
  /\ wrap = WrapOff
  /\ cv = CvOff
  /\ ci = CiOff
  /\ up = UpOff
  /\ cv2 = CvOff
  /\ \E v \in BOOLEAN, a \in BOOLEAN, e \in SeqsUpTo(Elements, MaxElements), hl \in BOOLEAN :
       vc = ComposeVideoCall("received", ComposeVideoPayload(v, a, e, hl, 5))

NextComposeVideo ==
  \/ composeVideoStart
  \/ composeVideoFfmpegExit
  \/ composeVideoExecDone
  \/ composeVideoReadDone
  \/ composeVideoRespond

SpecComposeVideo == InitComposeVideo /\ [][NextComposeVideo]_vars

(***************************************************************************)
(* Properties of the video commands.                                       *)
(***************************************************************************)
\* whether the command of the createVideo call has the audio.mp3 input
cvHasAudio == exists(fs, audioPathOf(cv.payload.containerId))

\* a finite positive length was given
lengthGiven(payload) == payload.hasLength /\ payload.length > 0

\* the explicit length alone decides the duration
lengthWins(payload, hasAudio, duration) ==
  /\ (lengthGiven(payload) /\ hasAudio) =>
       /\ ("-t " \o ToString(payload.length)) \in Range(duration)
       /\ "-shortest" \notin Range(duration)
  /\ "-shortest" \in Range(duration) <=> (hasAudio /\ ~lengthGiven(payload))

\* C13: in the commands of createVideo and composeVideo, a finite positive
\* length given together with a secondary audio track puts -t <length> and
\* no -shortest into the command; -shortest is there only when a secondary
\* audio track is supplied and no length is given.
ExplicitLengthWins ==
  /\ cv.spawned => lengthWins(cv.payload, cvHasAudio, cv.duration)
  /\ vc.spawned => lengthWins(vc.payload, vc.payload.audio, vc.duration)

\* the -i argument of a file
inputArg(path) == "-i \"" \o path \o "\""

\* the files a command reads, in the order of their -i arguments
inputFiles(inputs) == SelectSeq(inputs, LAMBDA a : a \notin {"-stream_loop", "-1"})

\* the maps of a command other than the map of the video
audioMaps(maps) == SelectSeq(maps, LAMBDA m : m # "-map \"[out]\"")

\* C14: the command createVideo assembles has exactly one audio map: with
\* audio.mp3 in the container that file is input 1 and is mapped by
\* -map 1:a; without it the base video is the only input and its audio is
\* mapped optionally by -map 0:a?.
OneAudioMap ==
  cv.spawned =>
    LET id == cv.payload.containerId
    IN /\ Len(audioMaps(cv.maps)) = 1
       /\ cvHasAudio =>
            /\ inputFiles(cv.inputs) = <<inputArg(videoPathOf(id)), inputArg(audioPathOf(id))>>
            /\ audioMaps(cv.maps) = <<"-map 1:a">>
       /\ ~cvHasAudio =>
            /\ inputFiles(cv.inputs) = <<inputArg(videoPathOf(id))>>
            /\ audioMaps(cv.maps) = <<"-map 0:a?">>

\* C14 witness: a command assembled for a container that holds audio.mp3
OneAudioMapWitness ==
  /\ cv.spawned
  /\ cvHasAudio
  /\ Len(inputFiles(cv.inputs)) = 2

\* the loop option stands directly in front of the -i of the audio file
loopsAudio(inputs, audioPath) ==
  \E k \in 1..(Len(inputs) - 2) :
    /\ inputs[k] = "-stream_loop"
    /\ inputs[k + 1] = "-1"
    /\ inputs[k + 2] = inputArg(audioPath)

\* the loop option is applied to the secondary audio, and only to it
audioIsLooped(inputs, hasAudio, audioPath) ==
  /\ hasAudio => loopsAudio(inputs, audioPath)
  /\ \A k \in 1..Len(inputs) :
       inputs[k] = "-stream_loop" =>
         (hasAudio /\ k + 2 <= Len(inputs) /\ inputs[k + 2] = inputArg(audioPath))

\* C15: in the commands of createVideo and composeVideo the loop option
\* -stream_loop -1 directly precedes the -i of the secondary audio when
\* there is one, and no loop option is emitted when there is none.
SecondaryAudioIsLooped ==
  /\ cv.spawned =>
       audioIsLooped(cv.inputs, cvHasAudio, audioPathOf(cv.payload.containerId))
  /\ vc.spawned =>
       audioIsLooped(vc.inputs, vc.payload.audio, composeVideoAudioPath(vc.ts))

(***************************************************************************)
(* composeImage: one call.                                                 *)
(***************************************************************************)
InitImage ==
  /\ now = 0
  /\ fs = EmptyFs
  /\ pending = {}
  /\ req = [r \in Requests |-> Request("off", Payload(<<>>, DefaultRatio))]
  /\ wrap = WrapOff
  /\ cv = CvOff
  /\ vc = VcOff
  /\ up = UpOff
  /\ cv2 = CvOff
  /\ \E e \in SeqsUpTo(Elements, MaxElements) :
       ci = Request("received", Payload(e, DefaultRatio))

NextImage ==
  \/ composeImageStart
  \/ composeImageFfmpegExit
  \/ composeImageExecDone
  \/ composeImageReadFileRun
  \/ composeImageReadFileDone
  \/ composeImageRespond
  \/ unlinkRun

SpecImage == InitImage /\ [][NextImage]_vars

\* the output file at path is on disk as the call named by wrote it
outputLeft(path, by) == exists(fs, path) /\ fs[path].by = by

\* C16: each compose endpoint follows one artifact mode: once a request that
\* returns bytes (composeImage, composeDynamic, composeVideo) has completed,
\* the output file it wrote is not in the output directory; a createVideo
\* request that has returned its URL has left the output file in place.
OneArtifactMode ==
  /\ ci.pc = "responded" => ~outputLeft(ci.outputImg, "ci")
  /\ \A r \in Requests : req[r].pc = "responded" => ~outputLeft(req[r].outputImg, r)
  /\ vc.pc = "responded" => ~outputLeft(vc.outputPath, "vc")
  /\ (cv.pc = "responded" /\ cv.response = "url") => outputLeft(cv.outputPath, "cv")

(***************************************************************************)
(* Containers: createContainer, the uploads and one createVideo call.      *)
(***************************************************************************)
\* the elements of the createVideo call that follows the uploads
ContainerElements ==
  {<<>>,
   <<Element(FALSE, "Text", "string", <<"a", SP, "a">>, "undefined", FALSE, FALSE, FALSE)>>}

InitContainer ==
  /\ now = 1
  /\ fs = EmptyFs
  /\ pending = {}
  /\ req = [r \in Requests |-> Request("off", Payload(<<>>, DefaultRatio))]
  /\ wrap = WrapOff
  /\ ci = CiOff
  /\ vc = VcOff
  /\ up = UpOff
  /\ cv2 = CvOff
  /\ \E id \in ContainerIds, e \in ContainerElements :
       cv = VideoCall("received", VideoPayload(id, e, FALSE, 0))

NextContainer ==
  \/ Tick
  \/ createContainer
  \/ uploadVideo
  \/ uploadAudio
  \/ createVideoStart
  \/ createVideoFfmpegExit
  \/ createVideoExecDone
  \/ createVideoRespond

SpecContainer == InitContainer /\ [][NextContainer]_vars

\* the step in which createVideo runs from its entry to its first await or
\* to its throw
createVideoRuns == cv.pc = "received" /\ cv'.pc # "received"

\* C17: after createContainer has returned an id and uploadVideo has
\* succeeded for that id, a createVideo request for that id with at least
\* one element does not fail with the missing-video error, whatever the
\* name the file was uploaded with.
UploadedVideoIsFound ==
  [][(/\ createVideoRuns
      /\ cv.payload.containerId \in up.created
      /\ cv.payload.containerId \in up.uploaded
      /\ Len(cv.payload.elements) >= 1)
       => cv'.result # "MissingVideoError"]_vars

\* the step is one uploadVideo or uploadAudio call
uploadRuns == up'.calls = up.calls + 1

\* C18: an upload that names an absent container directory and a createVideo
\* call whose container holds no video.mp4 fail with their not-found error,
\* and the step leaves the file system as it was (no file written, no
\* directory created) and spawns no ffmpeg process.
NotFoundChangesNothing ==
  [][/\ (/\ uploadRuns
         /\ up'.containerId # NoId
         /\ up'.hasFile
         /\ ~exists(fs, containerPathOf(up'.containerId)))
          => up'.result = "ContainerNotFound"
     /\ (uploadRuns /\ up'.result = "ContainerNotFound") => fs' = fs
     /\ (/\ createVideoRuns
         /\ cv.payload.containerId # NoId
         /\ Len(cv.payload.elements) >= 1
         /\ ~exists(fs, videoPathOf(cv.payload.containerId)))
          => cv'.result = "MissingVideoError"
     /\ (createVideoRuns /\ cv'.result = "MissingVideoError")
          => (fs' = fs /\ ~cv'.spawned)]_vars

\* C18 witness: with a container on disk, an upload has named an absent
\* container and createVideo has missed its video.mp4
NotFoundWitness ==
  /\ up.created # {}
  /\ up.result = "ContainerNotFound"
  /\ cv.result = "MissingVideoError"

(***************************************************************************)
(* composeDynamic on text elements whose Value and FontStyle hold the      *)
(* metacharacters of the filter graph.                                     *)
(***************************************************************************)
\* an ordinary character and the three metacharacters
MetaChars == {"a", BS, QT, CL}

MetaStrings == UNION {[1..k -> MetaChars] : k \in 0..MaxStyleLen}

InitEscape ==
  /\ now = 0
  /\ fs = EmptyFs
  /\ pending = {}
  /\ \E v \in MetaStrings, style \in MetaStrings, al \in {"undefined", "Center"} :
       req = [r \in Requests |->
                IF r = "r1"
                  THEN Request("received", Payload(<<StyledText(v, al, style)>>, DefaultRatio))
                  ELSE Request("off", Payload(<<>>, DefaultRatio))]
  /\ wrap = WrapOff
  /\ cv = CvOff
  /\ ci = CiOff
  /\ vc = VcOff
  /\ up = UpOff
  /\ cv2 = CvOff

SpecEscape == InitEscape /\ [][NextGraph]_vars

\* every backslash, single quote and colon of s is preceded by an escaping
\* backslash: read from the left, a backslash takes the character after it,
\* and no bare quote or colon is left
wellEscaped(s) ==
  LET RECURSIVE scan(_)
      scan(i) ==
        IF i > Len(s) THEN TRUE
        ELSE IF s[i] = BS THEN i < Len(s) /\ s[i + 1] \in {BS, QT, CL} /\ scan(i + 2)
        ELSE IF s[i] \in {QT, CL} THEN FALSE
        ELSE scan(i + 1)
  IN scan(1)

\* C19: in every filter graph composeDynamic builds, the text of each line,
\* the font path derived from FontStyle and the path of a staged text file
\* are embedded with every backslash, single quote and colon escaped.
EmbeddedValuesEscaped ==
  \A r \in Requests :
    req[r].spawned =>
      \A i \in 1..Len(req[r].filters) :
        /\ wellEscaped(req[r].filters[i].text)
        /\ wellEscaped(req[r].filters[i].font)
        /\ wellEscaped(req[r].filters[i].textfile)

(***************************************************************************)
(* getCanvasSize: one composeDynamic request or one composeImage call on   *)
(* every ratio value within the bounds.                                    *)
(***************************************************************************)
RatioChars == {"1", "6", "9", "x", ":"}

RatioTexts == UNION {[1..k -> RatioChars] : k \in 0..MaxRatioLen}

\* strings, one-string arrays, and null
RatioValues ==
  {JsValue(type, text) : type \in {"string", "array"}, text \in RatioTexts}
  \cup {JsValue("null", <<"n", "u", "l", "l">>)}

\* the layer of the request: one image, drawn at the height of the canvas
CanvasElements ==
  <<Element(FALSE, "Image", "string", <<"a">>, "undefined", FALSE, FALSE, FALSE)>>

InitCanvas ==
  /\ now = 0
  /\ fs = EmptyFs
  /\ pending = {}
  /\ wrap = WrapOff
  /\ cv = CvOff
  /\ vc = VcOff
  /\ up = UpOff
  /\ cv2 = CvOff
  /\ \E ratio \in RatioValues, dynamic \in BOOLEAN :
       /\ req = [r \in Requests |->
                   IF r = "r1" /\ dynamic
                     THEN Request("received", Payload(CanvasElements, ratio))
                     ELSE Request("off", Payload(<<>>, DefaultRatio))]
       /\ ci = IF dynamic THEN CiOff
               ELSE Request("received", Payload(CanvasElements, ratio))

NextCanvas == NextGraph \/ NextImage

SpecCanvas == InitCanvas /\ [][NextCanvas]_vars

\* what the claim says getCanvasSize returns for ratio
canvasAsClaimed(ratio, canvasSz) ==
  /\ canvasSz.type = "string"
  /\ isWxH(canvasSz.text)
  /\ ratio = JsString(<<"1", ":", "1">>)
       => canvasSz.text = <<"1", "0", "8", "0", "x", "1", "0", "8", "0">>
  /\ ratio = JsString(<<"9", ":", "1", "6">>)
       => canvasSz.text = <<"1", "0", "8", "0", "x", "1", "9", "2", "0">>
  /\ ratio = JsString(<<"1", "6", ":", "9">>)
       => canvasSz.text = <<"1", "9", "2", "0", "x", "1", "0", "8", "0">>
  /\ (ratio.type = "string" /\ isWxH(ratio.text)) => canvasSz = ratio
  /\ (ratio.type # "string" \/ (~isWxH(ratio.text) /\ ~\E k \in 1..Len(ratio.text) :
                                                          ratio.text[k] = ":"))
       => canvasSz.text = <<"1", "0", "8", "0", "x", "1", "0", "8", "0">>

\* C20: for every ratio value getCanvasSize returns a string of the form
\* <digits>x<digits>: the table entry of a listed ratio, the ratio itself when
\* it has that form, 1080x1080 otherwise; so the parse of the canvas height
\* in the image branch never fails.
CanvasSizeIsWxH ==
  /\ \A r \in Requests :
       started(r) =>
         /\ canvasAsClaimed(req[r].payload.ratio, getCanvasSize(req[r].payload.ratio))
         /\ req[r].result # "TypeError"
  /\ ci.pc \notin {"off", "received"} =>
       /\ canvasAsClaimed(ci.payload.ratio, getCanvasSize_ImageComposer(ci.payload.ratio))
       /\ ci.result # "TypeError"

(***************************************************************************)
(* Properties of concurrent requests.                                      *)
(***************************************************************************)
\* C21: a composeDynamic request whose ffmpeg run succeeded reads, and
\* returns, the bytes of the output file its own run wrote, under every
\* interleaving with the other request: at the end of its readFile the file
\* was there and was the one written by its own ffmpeg process.
ReadsOwnOutput ==
  \A r \in Requests :
    /\ req[r].pc = "read" => (req[r].exit = "ok" /\ req[r].buffer.by = r)
    /\ (req[r].pc = "responded" /\ req[r].response = "bytes") => req[r].buffer.by = r

(***************************************************************************)
(* createVideo: two requests in flight over containers 7 and 8.            *)
(***************************************************************************)
\* both containers hold a base video
PairFiles ==
  writeFile(writeFile(EmptyFs, videoPathOf(Id(7)), [by |-> "upload", data |-> <<"v">>]),
            videoPathOf(Id(8)), [by |-> "upload", data |-> <<"v">>])

\* the elements of the two requests
PairElements ==
  {<<>>,
   <<Element(FALSE, "Text", "string", <<"a">>, "undefined", FALSE, FALSE, FALSE)>>,
   <<Element(FALSE, "Text", "string", <<"a", SP, "a">>, "center", FALSE, FALSE, FALSE)>>}

InitVideoPair ==
  /\ now = 0
  /\ fs = PairFiles
  /\ pending = {}
  /\ req = [r \in Requests |-> Request("off", Payload(<<>>, DefaultRatio))]
  /\ wrap = WrapOff
  /\ ci = CiOff
  /\ vc = VcOff
  /\ up = UpOff
  /\ \E id \in {Id(7), Id(8)}, e \in PairElements :
       cv = VideoCall("received", VideoPayload(id, e, FALSE, 0))
  /\ \E id \in {Id(7), Id(8)}, e \in PairElements :
       cv2 = VideoCall("received", VideoPayload(id, e, FALSE, 0))

NextVideoPair ==
  \/ createVideoStart
  \/ createVideoFfmpegExit
  \/ createVideoExecDone
  \/ createVideoRespond
  \/ createVideoStartOther
  \/ createVideoFfmpegExitOther
  \/ createVideoExecDoneOther
  \/ createVideoRespondOther

SpecVideoPair == InitVideoPair /\ [][NextVideoPair]_vars

\* the ffmpeg process of a call is running
ffmpegRunning(call) == call.pc = "executing"

\* C22: two createVideo requests whose executions overlap never direct ffmpeg
\* to the same output file, also when both name the same containerId, and
\* the file behind the URL a request returns is the artifact of its own run.
OutputFilesApart ==
  /\ (ffmpegRunning(cv) /\ ffmpegRunning(cv2)) => cv.outputPath # cv2.outputPath
  /\ (cv.pc = "responded" /\ cv.response = "url") => fs[cv.outputPath].by = "cv"
  /\ (cv2.pc = "responded" /\ cv2.response = "url") => fs[cv2.outputPath].by = "cv2"

\* C23: every call to createContainer returns a containerId different from
\* the id returned by every other call, for any timing of the calls.
ContainerIdsUnique ==
  \A i, j \in 1..Len(up.returned) : i # j => up.returned[i] # up.returned[j]

\* the files an upload of the given base name ("video" / "audio") has left
\* in a container
uploadedFiles(files, containerId, base) ==
  {f \in {pathJoin(containerPathOf(containerId), base \o Str(extname(n))) : n \in UploadNames} :
     exists(files, f)}

\* C24: after a successful uploadAudio into a container that holds a base
\* video, createVideo on that container uses the uploaded audio as the
\* secondary audio track: the audio is input 1 and is mapped with -map 1:a,
\* whatever the name and extension the audio file was uploaded with.
UploadedAudioIsUsed ==
  [][(/\ createVideoRuns
      /\ cv'.spawned
      /\ uploadedFiles(fs, cv.payload.containerId, "audio") # {})
       => /\ Len(inputFiles(cv'.inputs)) = 2
          /\ inputFiles(cv'.inputs)[2] \in
               {inputArg(f) : f \in uploadedFiles(fs, cv.payload.containerId, "audio")}
          /\ audioMaps(cv'.maps) = <<"-map 1:a">>]_vars

\* C25: a new upload replaces the existing file: after every successful
\* uploadVideo the container holds exactly one base video file, whose
\* content is the bytes of that upload; likewise for uploadAudio and the
\* audio file of the container.
UploadReplaces ==
  [][(uploadRuns /\ up'.result = "ok") =>
       LET base == IF up'.op = "uploadVideo" THEN "video" ELSE "audio"
           held == uploadedFiles(fs', up'.containerId, base)
       IN /\ Cardinality(held) = 1
          /\ \A f \in held : fs'[f].data = uploadBuffer(base, up'.calls)]_vars

(***************************************************************************)
(* Containers named by strings: the uploads and createVideo with a         *)
(* containerId that holds path segments.                                   *)
(***************************************************************************)
\* the disk before the calls: empty, or with the output directory an
\* earlier compose call has made
InitTraversal ==
  /\ now = 1
  /\ fs \in {EmptyFs, ensureDir(EmptyFs, OUT_DIR)}
  /\ pending = {}
  /\ req = [r \in Requests |-> Request("off", Payload(<<>>, DefaultRatio))]
  /\ wrap = WrapOff
  /\ ci = CiOff
  /\ vc = VcOff
  /\ up = UpOff
  /\ cv2 = CvOff
  /\ \E id \in (ContainerIds \cup TraversalIds) \ {NoId} :
       cv = VideoCall("received",
                      VideoPayload(id, <<Element(FALSE, "Text", "string", <<"a">>,
                                                 "undefined", FALSE, FALSE, FALSE)>>,
                                   FALSE, 0))

NextTraversal ==
  \/ createContainer
  \/ uploadVideoAnyId
  \/ uploadAudioAnyId
  \/ createVideoStart
  \/ createVideoFfmpegExit
  \/ createVideoExecDone
  \/ createVideoRespond

SpecTraversal == InitTraversal /\ [][NextTraversal]_vars

\* a path lies directly inside a directory
directlyInside(dir, segments) ==
  /\ Len(segments) = Len(dir) + 1
  /\ SubSeq(segments, 1, Len(dir)) = dir

\* C26: for every containerId value, the file an upload writes lies inside a
\* directory that is a direct child of the temp directory, and the output
\* path createVideo hands to ffmpeg lies directly inside the output
\* directory.
WritesStayInside ==
  [][/\ (uploadRuns /\ up'.result = "ok") =>
          directlyInside(TempSegments, containerSegments(up'.containerId))
     /\ (createVideoRuns /\ cv'.spawned) =>
          /\ cv'.outputPath = pathText(outputSegments(cv.payload.containerId))
          /\ directlyInside(OutSegments, outputSegments(cv.payload.containerId))]_vars

(***************************************************************************)
(* Properties of the inputs of composeDynamic.                             *)
(***************************************************************************)
\* the element indices (from 0) of the usable Image elements, in order
imageIndices(elements) ==
  SelectSeq([k \in 1..Len(elements) |-> k - 1],
            LAMBDA idx : ~elements[idx + 1].isNull /\ isImage(elements[idx + 1]))

\* the label of input k
inputLabel(k) == "[" \o ToString(k) \o ":v]"

\* the labels input.length could give for any number of inputs in reach
anyInputLabel == {inputLabel(k) : k \in 0..(2 * MaxElements + 2)}

\* the stages that read a label
readers(filters, label) == {i \in 1..Len(filters) : label \in Range(filters[i].ins)}

\* C27: in the command composeDynamic builds, the number of inputs is 1 plus
\* the number of usable Image elements; the k-th usable Image element is
\* staged to the file of the k-th image -i argument and its scale stage
\* reads [k:v]; every input index the graph refers to is smaller than the
\* number of inputs; and each image input is read by exactly one stage.
InputsMatchImages ==
  \A r \in Requests :
    req[r].spawned =>
      LET f == req[r].filters
          inputs == req[r].inputs
          images == imageIndices(req[r].payload.elements)
          imgPath(idx) == pathJoin(TEMP_DIR, "img_" \o ToString(req[r].ts) \o "_"
                                             \o ToString(idx) \o ".png")
      IN /\ Len(inputs) = 1 + Len(images)
         /\ \A k \in 1..Len(images) :
              /\ inputs[k + 1] = inputArg(imgPath(images[k]))
              /\ imgPath(images[k]) \in Range(req[r].tempFiles)
              /\ \E i \in 1..Len(f) :
                   /\ f[i].op = "scale"
                   /\ f[i].out = scaledLabel(images[k])
                   /\ f[i].ins = <<inputLabel(k)>>
         /\ \A i \in 1..Len(f) : \A l \in Range(f[i].ins) :
              l \in anyInputLabel => l \in inputLabels(inputs)
         /\ \A k \in 1..(Len(inputs) - 1) : Cardinality(readers(f, inputLabel(k))) = 1

\* C27 witness: a command built for two usable Image elements
InputsMatchImagesWitness ==
  \E r \in Requests :
    /\ req[r].spawned
    /\ Len(req[r].inputs) = 3
    /\ Len(imageIndices(req[r].payload.elements)) = 2

(***************************************************************************)
(* Properties of the draw stages of text layers.                           *)
(***************************************************************************)
\* the draw stages the alignment rule gives a text layer: one per wrapped
\* line for center and right, one for the block otherwise
drawsOf(el, defaultMax) ==
  LET maxChars == IF el.hasMax THEN el.MaxLineLength ELSE defaultMax
      align == toLowerCase(IF el.align = "undefined" THEN "left" ELSE el.align)
  IN IF align \in {"center", "right"} THEN Len(wrapLines(el.Value, maxChars)) ELSE 1

\* the draw stages the rule gives the usable text layers of a payload
RECURSIVE drawsOfAll(_, _)
drawsOfAll(elements, defaultMax) ==
  IF elements = <<>> THEN 0
  ELSE (IF isText(Head(elements)) THEN drawsOf(Head(elements), defaultMax) ELSE 0)
       + drawsOfAll(Tail(elements), defaultMax)

\* the draw stages of a graph
drawStages(stages) == SelectSeq(stages, LAMBDA g : g.op = "drawtext")

\* every usable text layer of a payload wraps to at least one line
allWrapToLines(elements, defaultMax) ==
  \A k \in 1..Len(elements) :
    isText(elements[k]) =>
      wrapLines(elements[k].Value,
                IF elements[k].hasMax THEN elements[k].MaxLineLength ELSE defaultMax) # <<>>

\* C28: for every usable Text layer the number of draw stages depends only
\* on alignment and line count: center and right alignment emit one draw
\* stage per wrapped line, left alignment (or any other align value) emits
\* one draw stage for the whole block however many lines the text wraps to,
\* in composeDynamic and in createVideo.  Stated for createVideo on texts
\* that wrap to at least one line.
DrawStagesByAlignment ==
  /\ \A r \in Requests :
       req[r].spawned =>
         Len(drawStages(req[r].filters))
           = drawsOfAll(req[r].payload.elements, DefaultMaxLineLength)
  /\ (cv.spawned /\ allWrapToLines(cv.payload.elements, DefaultVideoMaxLineLength)) =>
       Len(drawStages(cv.chains)) = drawsOfAll(cv.payload.elements, DefaultVideoMaxLineLength)

(***************************************************************************)
(* Properties of the scale and overlay stages of image layers.             *)
(***************************************************************************)
\* the positions of the stages of one filter in a graph, in order
positionsOf(stages, op) ==
  SelectSeq([i \in 1..Len(stages) |-> i], LAMBDA i : stages[i].op = op)

\* the sizing policy: both given, exactly Width by Height; only Width, the
\* width is scaled to Width; only Height, the height is scaled to Height;
\* neither, the height is scaled to the canvas height
followsPolicy(stage, el, canvasHeight) ==
  /\ (el.hasW /\ el.hasH) => (stage.w = ToString(el.Width) /\ stage.h = ToString(el.Height))
  /\ (el.hasW /\ ~el.hasH) => stage.w = ToString(el.Width)
  /\ (~el.hasW /\ el.hasH) => stage.h = ToString(el.Height)
  /\ (~el.hasW /\ ~el.hasH) => stage.h = ToString(canvasHeight)

\* every usable image has one scale stage, followed by its overlay stage
scaledAndOverlaid(stages, elements, canvasHeight) ==
  LET images == imageIndices(elements)
      scales == positionsOf(stages, "scale")
  IN /\ Len(scales) = Len(images)
     /\ Len(positionsOf(stages, "overlay")) = Len(images)
     /\ \A k \in 1..Len(images) :
          /\ scales[k] < Len(stages)
          /\ stages[scales[k] + 1].op = "overlay"
          /\ stages[scales[k]].out \in Range(stages[scales[k] + 1].ins)
          /\ followsPolicy(stages[scales[k]], elements[images[k] + 1], canvasHeight)

\* the canvas height the composers read from the canvas size
canvasHeightOf(canvasSz) == parseInt(secondPiece(canvasSz.text, "x"))

\* C29: for every usable Image element, composeDynamic and composeImage emit
\* exactly one scale stage followed by exactly one overlay stage, and the
\* scale stage follows the sizing policy: Width and Height both given, the
\* image is scaled to exactly Width by Height; only Width given, its width
\* is scaled to Width; only Height given, its height is scaled to Height;
\* neither given, its height is scaled to the canvas height.
ImagesScaledByPolicy ==
  /\ \A r \in Requests :
       req[r].spawned =>
         scaledAndOverlaid(req[r].filters, req[r].payload.elements,
                           canvasHeightOf(getCanvasSize(req[r].payload.ratio)))
  /\ ci.spawned =>
       scaledAndOverlaid(ci.filters, ci.payload.elements,
                         canvasHeightOf(getCanvasSize_ImageComposer(ci.payload.ratio)))

(***************************************************************************)
(* The frame of createVideo.                                               *)
(***************************************************************************)
\* the names of the files the operations write: video<ext> and audio<ext>
\* of the uploads, and <last segment of the id>.mp4 of createVideo
entryNames ==
  {base \o Str(extname(n)) : base \in {"video", "audio"}, n \in UploadNames}
  \cup {id[Len(id)] \o ".mp4" : id \in (ContainerIds \cup TraversalIds) \ {NoId}}

\* the files directly inside the container directory of an id
containerEntries(containerId) ==
  {pathJoin(containerPathOf(containerId), n) : n \in entryNames}

\* a step of the createVideo call
createVideoSteps == cv' # cv

\* C30: createVideo never creates, modifies or deletes a file inside the
\* container directory, whatever its outcome: the video.mp4 and audio.mp3 of
\* the container are the same after the call as before it.
ContainerUntouched ==
  [][createVideoSteps =>
       \A f \in containerEntries(cv.payload.containerId) :
         /\ exists(fs', f) <=> exists(fs, f)
         /\ exists(fs, f) => fs'[f] = fs[f]]_vars

====
